---- MODULE Spec2Model ----
(***************************************************************************)
(* Model of the Zephyr touch-controller driver                             *)
(* (drivers/input/touchscreen/zephyr.c): the bring-up sequence, the        *)
(* request/response queries with their retry loops, the read-one-frame     *)
(* orchestration and the interrupt-triggered read coalescing.              *)
(*                                                                         *)
(* Byte buffers are sequences of 0..255; B(buf, i) is the C expression     *)
(* buf[i] (0-based).  The transport is an input: a script is the sequence  *)
(* of responses the device gives to successive exchanges of one retry loop.*)
(***************************************************************************)
EXTENDS Integers, Sequences, FiniteSets, TLC

VARIABLES
    \* struct zephyr_data (the device session)
    CurNOP, irq_count, firmware_loaded, InterfaceVersion, MaxPacketSize,
    geometry, allocated, min_pressure,
    \* zephyr_setup: position, return value, the local reportBuffer
    setup_pc, setup_ret, reportBuffer, reportLen,
    \* interrupt delivery and the deferred work
    irq_requested, work_pending, wk,
    \* readFrame activations, one per calling thread
    rf,
    \* the touch-event sink and the history counters the properties read
    frames, delivered, triggers, passes, sched_unloaded, steps, exhausted,
    \* one query applied to a scripted transport
    q

vars == << CurNOP, irq_count, firmware_loaded, InterfaceVersion, MaxPacketSize,
           geometry, allocated, setup_pc, setup_ret, reportBuffer, reportLen,
           irq_requested, work_pending, wk, rf,
           frames, delivered, triggers, passes, sched_unloaded, steps, exhausted, q,
           min_pressure >>

(***************************************************************************)
(* Bounds of the model.                                                    *)
(***************************************************************************)
MaxScript == 4
RunScript == 1
NHandlers == 2
MaxTriggers == 2
MaxWrites == 2

(***************************************************************************)
(* Program constants.                                                      *)
(***************************************************************************)
SYNC == 170
NOP_A == 100
NOP_B == 101
MT_INFO_FAMILYID == 209
MT_INFO_SENSORINFO == 211
MT_INFO_SENSORREGIONDESC == 208
MT_INFO_SENSORREGIONPARAM == 161
MT_INFO_SENSORDIM == 217
ChunkMax == 1016
ASpeedBase == 1073741824
DefaultMaxPacketSize == 1000

Byte == 0..255

B(buf, i) == buf[i + 1]

Fill(b, n) == [i \in 1..n |-> b]

Patch(buf, i, b) == [buf EXCEPT ![i + 1] = b]

Hi8(x) == (x \div 256) % 256

Lo8(x) == x % 256

BE16(hi, lo) == ((hi % 256) * 256) + (lo % 256)

\* sum of buf[lo..hi] (C indices, inclusive); the C loops add the bytes in order
RECURSIVE SumBytes(_, _, _)
SumBytes(buf, lo, hi) ==
    IF lo > hi THEN 0
    ELSE IF lo = hi THEN B(buf, lo)
    ELSE LET mid == (lo + hi) \div 2
         IN  SumBytes(buf, lo, mid) + SumBytes(buf, mid + 1, hi)

(***************************************************************************)
(* The transport.  mt_txrx exchanges max(outLen, inLen) bytes; its status  *)
(* is ignored by every caller.  The n-th exchange of a retry loop receives *)
(* the n-th response of the script; a script shorter than the loop repeats *)
(* its last response.                                                      *)
(***************************************************************************)
Resp(script, n) == IF n <= Len(script) THEN script[n] ELSE script[Len(script)]

Scripts(alphabet) == UNION { [1..n -> alphabet] : n \in 1..MaxScript }

RunScripts(alphabet) == UNION { [1..n -> alphabet] : n \in 1..RunScript }

Xfer(kind, tx, n) == [kind |-> kind, tx |-> tx, len |-> n]

(***************************************************************************)
(* readFrameLength (lines 552-596).  *len is written on success only.      *)
(***************************************************************************)
\* the validation without the comparison with MaxPacketSize
FrameLengthAcceptsAnyLength(rx, maxpkt) ==
    /\ B(rx, 0) = SYNC
    /\ (B(rx, 4) + B(rx, 5)) % 65536 = BE16(B(rx, 6), B(rx, 7))

FrameLengthAccepts(rx, maxpkt) ==
    LET tLen      == BE16(B(rx, 4), B(rx, 5))
        tLenCkSum == (B(rx, 4) + B(rx, 5)) % 65536
        checksum  == BE16(B(rx, 6), B(rx, 7))
    IN  /\ B(rx, 0) = SYNC
        /\ tLenCkSum = checksum
        /\ ~(tLen > maxpkt)

RECURSIVE readFrameLengthLoop(_, _, _, _)
readFrameLengthLoop(script, nop, maxpkt, try) ==
    IF try < 4
    THEN LET tx == Fill(nop % 256, 8)
             rx == Resp(script, try + 1)
             x  == Xfer("framelen", tx, 8)
         IN  IF FrameLengthAccepts(rx, maxpkt)
             THEN [ret |-> TRUE, len |-> BE16(B(rx, 4), B(rx, 5)), log |-> <<x>>]
             ELSE LET rest == readFrameLengthLoop(script, nop, maxpkt, try + 1)
                  IN  [rest EXCEPT !.log = <<x>> \o @]
    ELSE [ret |-> FALSE, len |-> 0, log |-> <<>>]

\* the loop entered with one attempt already spent
readFrameLengthFromOne(script, nop, maxpkt) == readFrameLengthLoop(script, nop, maxpkt, 1)

readFrameLength(script, nop, maxpkt) == readFrameLengthLoop(script, nop, maxpkt, 0)

(***************************************************************************)
(* readResultData (lines 513-550); len is the frame length plus one.  On   *)
(* success the decoder is handed InputPacket + 1, len - 3 bytes.           *)
(***************************************************************************)
ResultDataAccepts(rx, len) ==
    LET checksum   == BE16(B(rx, len - 2), B(rx, len - 1))
        myChecksum == SumBytes(rx, 1, len - 3) % 65536
    IN  /\ B(rx, 0) = SYNC
        /\ myChecksum = checksum

RECURSIVE readResultDataLoop(_, _, _)
readResultDataLoop(script, len, try) ==
    IF try < 4
    THEN LET tx == Fill(104, len)
             rx == Resp(script, try + 1)
             x  == Xfer("framedata", tx, len)
         IN  IF ResultDataAccepts(rx, len)
             THEN [ret |-> TRUE, frame |-> SubSeq(rx, 2, len - 2), log |-> <<x>>]
             ELSE LET rest == readResultDataLoop(script, len, try + 1)
                  IN  [rest EXCEPT !.log = <<x>> \o @]
    ELSE [ret |-> FALSE, frame |-> <<>>, log |-> <<>>]

\* readResultData handing over the checksum bytes along with the payload
readResultDataWithChecksum(script, len) ==
    LET r == readResultDataLoop(script, len, 0)
    IN  IF r.ret
        THEN [r EXCEPT !.frame = SubSeq(Resp(script, Len(r.log)), 2, len)]
        ELSE r

readResultData(script, len) == readResultDataLoop(script, len, 0)

(***************************************************************************)
(* getReportInfo (lines 648-686).                                          *)
(***************************************************************************)
ReportInfoAccepts(rx, id) ==
    LET checksum   == BE16(B(rx, 6), B(rx, 7))
        myChecksum == (id + B(rx, 4) + B(rx, 5)) % 65536
    IN  /\ B(rx, 0) = SYNC
        /\ checksum = myChecksum

RECURSIVE getReportInfoLoop(_, _, _)
getReportInfoLoop(script, id, try) ==
    IF try < 4
    THEN LET tx == Patch(Fill(143, 8), 1, id % 256)
             rx == Resp(script, try + 1)
             x  == Xfer("reportinfo", tx, 8)
         IN  IF ReportInfoAccepts(rx, id)
             THEN [ret |-> TRUE,
                   err |-> (B(rx, 4) \div 16) % 16,
                   len |-> ((B(rx, 4) % 16) * 256) + B(rx, 5),
                   log |-> <<x>>]
             ELSE LET rest == getReportInfoLoop(script, id, try + 1)
                  IN  [rest EXCEPT !.log = <<x>> \o @]
    ELSE [ret |-> FALSE, err |-> 0, len |-> 0, log |-> <<>>]

\* the query giving up at the first response that fails validation
getReportInfoFatal(script, id) ==
    LET r == getReportInfoLoop(script, id, 0)
    IN  IF Len(r.log) = 1 THEN r
        ELSE [ret |-> FALSE, err |-> 0, len |-> 0, log |-> << r.log[1] >>]

getReportInfo(script, id) == getReportInfoLoop(script, id, 0)

(***************************************************************************)
(* getReport (lines 598-646).  wrote tells whether *outLen and the         *)
(* caller's buffer were written.                                           *)
(***************************************************************************)
ReportAccepts(rx, id, len) ==
    LET checksum   == BE16(B(rx, len + 4), B(rx, len + 5))
        myChecksum == (id + SumBytes(rx, 4, len + 3)) % 65536
    IN  /\ B(rx, 0) = SYNC
        /\ myChecksum = checksum

RECURSIVE getReportLoop(_, _, _, _)
getReportLoop(script, id, len, try) ==
    IF try < 4
    THEN LET tx == Patch(Fill(130, len + 6), 1, id % 256)
             rx == Resp(script, try + 1)
             x  == Xfer("report", tx, len + 6)
         IN  IF ReportAccepts(rx, id, len)
             THEN [ret |-> TRUE, wrote |-> TRUE, outLen |-> len,
                   data |-> SubSeq(rx, 5, len + 4), log |-> <<x>>]
             ELSE LET rest == getReportLoop(script, id, len, try + 1)
                  IN  [rest EXCEPT !.log = <<x>> \o @]
    ELSE [ret |-> FALSE, wrote |-> FALSE, outLen |-> 0, data |-> <<>>, log |-> <<>>]

\* getReport without the test of the error code (lines 606-607)
getReportIgnoringError(infoScript, dataScript, id) ==
    LET info == getReportInfo(infoScript, id)
    IN  IF ~info.ret
        THEN [ret |-> FALSE, wrote |-> FALSE, outLen |-> 0, data |-> <<>>,
              log |-> info.log]
        ELSE LET r == getReportLoop(dataScript, id, info.len, 0)
             IN  [r EXCEPT !.log = info.log \o @]

getReport(infoScript, dataScript, id) ==
    LET info == getReportInfo(infoScript, id)
        none == [ret |-> FALSE, wrote |-> FALSE, outLen |-> 0, data |-> <<>>,
                 log |-> info.log]
    IN  IF ~info.ret THEN none
        ELSE IF info.err # 0 THEN none
        ELSE LET r == getReportLoop(dataScript, id, info.len, 0)
             IN  [r EXCEPT !.log = info.log \o @]

(***************************************************************************)
(* determineInterfaceVersion (lines 688-717): every failed attempt stores  *)
(* the fallback values in the session.                                     *)
(***************************************************************************)
RECURSIVE determineInterfaceVersionLoop(_, _, _, _)
determineInterfaceVersionLoop(script, ver, maxpkt, try) ==
    IF try < 4
    THEN LET tx == Fill(208, 4)
             rx == Resp(script, try + 1)
             x  == Xfer("ifver", tx, 4)
         IN  IF B(rx, 0) = SYNC
             THEN [ret |-> TRUE, InterfaceVersion |-> B(rx, 1),
                   MaxPacketSize |-> (B(rx, 2) * 256) + B(rx, 3), log |-> <<x>>]
             ELSE LET rest == determineInterfaceVersionLoop(script, 0, DefaultMaxPacketSize, try + 1)
                  IN  [rest EXCEPT !.log = <<x>> \o @]
    ELSE [ret |-> FALSE, InterfaceVersion |-> ver, MaxPacketSize |-> maxpkt, log |-> <<>>]

\* the query without the fallback stores of lines 709-710
determineInterfaceVersionNoFallback(script, ver, maxpkt) ==
    LET r == determineInterfaceVersionLoop(script, ver, maxpkt, 0)
    IN  IF r.ret THEN r
        ELSE [r EXCEPT !.InterfaceVersion = ver, !.MaxPacketSize = maxpkt]

determineInterfaceVersion(script, ver, maxpkt) ==
    determineInterfaceVersionLoop(script, ver, maxpkt, 0)

(***************************************************************************)
(* verifyUpload (lines 786-818), sendExecutePacket (821-834) and           *)
(* sendBlankDataPacket (836-849).                                          *)
(***************************************************************************)
\* the check of the acknowledgement pair alone, the checksum not compared
verifyUploadAnyChecksum(rx, checksum) == B(rx, 0) = 208 /\ B(rx, 1) = 0

\* the check without the comparison of the upper checksum byte
verifyUploadLowByte(rx, checksum) ==
    B(rx, 0) = 208 /\ B(rx, 1) = 0 /\ B(rx, 3) = Lo8(checksum)

verifyUpload(rx, checksum) ==
    IF B(rx, 0) # 208 \/ B(rx, 1) # 0 THEN FALSE
    ELSE IF B(rx, 2) # Hi8(checksum) THEN FALSE
    ELSE IF B(rx, 3) # Lo8(checksum) THEN FALSE
    ELSE TRUE

VerifyXfer == Xfer("verify", <<5, 0, 0, 6>>, 4)

sendExecutePacket == Xfer("execute", <<196, 0, 0, 196>>, 4)

sendBlankDataPacket == Xfer("blank", <<194, 0, 0, 0>>, 4)

(***************************************************************************)
(* The device's answer to a verify exchange: it reads back the checksum of *)
(* what it received ("ack"), reads back a wrong one ("corrupt"), or does   *)
(* not answer with the acknowledgement pair ("nosync").                    *)
(***************************************************************************)
VerifyTags == {"ack", "corrupt", "nosync"}

VerifyReply(tag, checksum) ==
    CASE tag = "ack"     -> <<208, 0, Hi8(checksum), Lo8(checksum)>>
      [] tag = "corrupt" -> <<208, 0, Hi8(checksum), Lo8(checksum + 1)>>
      [] OTHER           -> <<0, 0, 0, 0>>

(***************************************************************************)
(* makeBootloaderDataPacket (lines 851-887): the checksum it returns       *)
(* through cksumOut, over the data bytes and the six header bytes.         *)
(***************************************************************************)
BootloaderHeader(destAddress) ==
    << 194,
       (destAddress \div 16777216) % 256,
       (destAddress \div 65536) % 256,
       (destAddress \div 256) % 256,
       destAddress % 256,
       0 >>

makeBootloaderChecksum(destAddress, data, dataLen) ==
    LET n == IF dataLen > 1016 THEN 1016 ELSE dataLen
    IN  SumBytes(data, 0, n - 1) + SumBytes(BootloaderHeader(destAddress), 0, 5)

\* the frame with the bytes behind the data left as they were
makeBootloaderDataPacketNoPad(output, destAddress, data, dataLen) ==
    LET n == IF dataLen > ChunkMax THEN ChunkMax ELSE dataLen
    IN  [ret      |-> n,
         checksum |-> makeBootloaderChecksum(destAddress, data, dataLen),
         output   |-> [j \in 1..Len(output) |->
                        IF j <= 6 THEN BootloaderHeader(destAddress)[j]
                        ELSE IF j <= n + 6 THEN data[j - 6]
                        ELSE output[j]]]

\* the frame it leaves in output, which held anything before: the stores of
\* lines 859-864 and 872, the memset of line 880, the stores of 881-882
makeBootloaderDataPacket(output, destAddress, data, dataLen) ==
    LET n == IF dataLen > ChunkMax THEN ChunkMax ELSE dataLen
    IN  [ret      |-> n,
         checksum |-> makeBootloaderChecksum(destAddress, data, dataLen),
         output   |-> [j \in 1..Len(output) |->
                        IF j <= 6 THEN BootloaderHeader(destAddress)[j]
                        ELSE IF j <= n + 6 THEN data[j - 6]
                        ELSE IF j <= (n + 6) + (ChunkMax - n) THEN 0
                        ELSE IF j = 1023
                        THEN Hi8(makeBootloaderChecksum(destAddress, data, dataLen))
                        ELSE IF j = 1024
                        THEN Lo8(makeBootloaderChecksum(destAddress, data, dataLen))
                        ELSE output[j]]]

(***************************************************************************)
(* loadASpeedFirmware (lines 719-757).  script holds the device's answers  *)
(* to the successive verify exchanges; at counts those already consumed.   *)
(***************************************************************************)
RECURSIVE uploadChunkLoop(_, _, _, _, _, _)
uploadChunkLoop(script, at, address, toUpload, checksum, try) ==
    IF try < 5
    THEN LET x  == << [kind |-> "chunk", tx |-> <<address, toUpload>>, len |-> 1024],
                      VerifyXfer >>
             rx == VerifyReply(Resp(script, at + 1), checksum)
         IN  IF verifyUpload(rx, checksum)
             THEN [try |-> try, at |-> at + 1, log |-> x]
             ELSE LET rest == uploadChunkLoop(script, at + 1, address, toUpload, checksum, try + 1)
                  IN  [rest EXCEPT !.log = x \o @]
    ELSE [try |-> try, at |-> at, log |-> <<>>]

RECURSIVE loadASpeedFirmwareLoop(_, _, _, _, _)
loadASpeedFirmwareLoop(script, at, address, firmware, done) ==
    LET left == Len(firmware) - done
    IN  IF left > 0
        THEN LET toUpload == IF left > ChunkMax THEN ChunkMax ELSE left
                 data     == SubSeq(firmware, done + 1, done + toUpload)
                 checksum == makeBootloaderChecksum(address, data, toUpload)
                 c        == uploadChunkLoop(script, at, address, toUpload, checksum, 0)
             IN  IF c.try = 5
                 THEN [ret |-> FALSE, log |-> c.log]
                 ELSE LET rest == loadASpeedFirmwareLoop(script, c.at, address + toUpload,
                                      firmware, done + toUpload)
                      IN  [rest EXCEPT !.log = c.log \o @]
        ELSE [ret |-> TRUE, log |-> <<sendExecutePacket>>]

\* the upload with its first chunk addressed to 0
loadASpeedFirmwareFromZero(script, firmware) ==
    loadASpeedFirmwareLoop(script, 0, 0, firmware, 0)

loadASpeedFirmware(script, firmware) ==
    loadASpeedFirmwareLoop(script, 0, ASpeedBase, firmware, 0)

(***************************************************************************)
(* loadMainFirmware (lines 759-784).                                       *)
(***************************************************************************)
RECURSIVE loadMainFirmwareLoop(_, _, _, _)
loadMainFirmwareLoop(script, firmware, checksum, i) ==
    IF i < 5
    THEN LET x  == << sendBlankDataPacket,
                      [kind |-> "mainfw", speed |-> "FAST_SPEED", tx |-> firmware,
                       len |-> Len(firmware)],
                      VerifyXfer >>
             rx == VerifyReply(Resp(script, i + 1), checksum)
         IN  IF verifyUpload(rx, checksum)
             THEN [i |-> i, log |-> x]
             ELSE LET rest == loadMainFirmwareLoop(script, firmware, checksum, i + 1)
                  IN  [rest EXCEPT !.log = x \o @]
    ELSE [i |-> i, log |-> <<>>]

\* the upload that sends the execute command whether or not a verify succeeded
loadMainFirmwareAlwaysExecute(script, firmware) ==
    LET checksum == SumBytes(firmware, 0, Len(firmware) - 1)
        r        == loadMainFirmwareLoop(script, firmware, checksum, 0)
    IN  [ret |-> r.i # 5, checksum |-> checksum,
         log |-> r.log \o <<sendExecutePacket>>]

loadMainFirmware(script, firmware) ==
    LET checksum == SumBytes(firmware, 0, Len(firmware) - 1)
        r        == loadMainFirmwareLoop(script, firmware, checksum, 0)
    IN  IF r.i = 5
        THEN [ret |-> FALSE, checksum |-> checksum, log |-> r.log]
        ELSE [ret |-> TRUE, checksum |-> checksum,
              log |-> r.log \o <<sendExecutePacket>>]

(***************************************************************************)
(* Responses the modelled device can give.  Each set holds well-formed     *)
(* responses and responses that fail each check of the query's validator.  *)
(***************************************************************************)
BadSync(n) == Fill(0, n)

\* interface version 1 with maximum packet size 1000, version 2 with 8
IfVerResponses == { BadSync(4), <<170, 1, 3, 232>>, <<170, 2, 0, 8>> }

FrameLenReply(len, ck) == <<170, 0, 0, 0, Hi8(len), Lo8(len), Hi8(ck), Lo8(ck)>>

\* lengths 0, 5 and 9 with a good checksum, length 5 with a bad one, no sync
FrameLenResponses ==
    { BadSync(8), FrameLenReply(0, 0), FrameLenReply(5, 5), FrameLenReply(9, 9),
      FrameLenReply(5, 6) }

FrameLengths == { 5, 9 }

\* a response of len + 1 bytes to the frame-data request for a frame of len bytes
FrameDataReply(len, b, ckoff) ==
    LET body == Fill(b, len - 2)
        ck   == (SumBytes(body, 0, len - 3) + ckoff) % 65536
    IN  <<170>> \o body \o <<Hi8(ck), Lo8(ck)>>

FrameDataResponses(len) ==
    { BadSync(len + 1), FrameDataReply(len, 1, 0), FrameDataReply(len, 1, 1) }

ReportIds == { MT_INFO_FAMILYID, MT_INFO_SENSORINFO, MT_INFO_SENSORREGIONDESC,
               MT_INFO_SENSORREGIONPARAM, MT_INFO_SENSORDIM }

ReportInfoReply(id, b4, b5, ckoff) ==
    LET ck == (id + b4 + b5 + ckoff) % 65536
    IN  <<170, 0, 0, 0, b4, b5, Hi8(ck), Lo8(ck)>>

\* report lengths 8 and 2 without error, error code 1, a bad checksum, no sync
ReportInfoResponses(id) ==
    { BadSync(8), ReportInfoReply(id, 0, 8, 0), ReportInfoReply(id, 0, 2, 0),
      ReportInfoReply(id, 16, 8, 0), ReportInfoReply(id, 0, 8, 1) }

ReportReply(id, len, b, ckoff) ==
    LET body == Fill(b, len)
        ck   == (id + SumBytes(body, 0, len - 1) + ckoff) % 65536
    IN  <<170, 0, 0, 0>> \o body \o <<Hi8(ck), Lo8(ck)>>

ReportResponses(id, len) ==
    { BadSync(len + 6), ReportReply(id, len, 0, 0), ReportReply(id, len, 1, 0),
      ReportReply(id, len, 1, 1) }

\* the responses of the device that bring-up talks to: its reports are 8 bytes
RunReportInfoResponses(id) ==
    { BadSync(8), ReportInfoReply(id, 0, 8, 0), ReportInfoReply(id, 16, 8, 0) }

RunReportResponses(id, len) ==
    { BadSync(len + 6), ReportReply(id, len, 1, 0), ReportReply(id, len, 1, 1) }

\* firmware images: opaque byte blobs of the given length
Image(len) == [i \in 1..len |-> (i * 7) % 256]

(***************************************************************************)
(* One query applied to a scripted transport: the query, its inputs and    *)
(* what it returned, with the transport exchanges it made.                 *)
(***************************************************************************)
NoQuery == [kind |-> "none"]

ApplyInterfaceVersion ==
    /\ q = NoQuery
    /\ \E script \in Scripts(IfVerResponses), maxpkt \in {8, 1000} :
         LET r == determineInterfaceVersion(script, 0, maxpkt)
         IN  q' = [kind |-> "ifver", script |-> script, maxpkt |-> maxpkt,
                   ret |-> r.ret, log |-> r.log,
                   out |-> [InterfaceVersion |-> r.InterfaceVersion,
                            MaxPacketSize |-> r.MaxPacketSize]]

ApplyReportInfo ==
    /\ q = NoQuery
    /\ \E id \in ReportIds : \E script \in Scripts(ReportInfoResponses(id)) :
         LET r == getReportInfo(script, id)
         IN  q' = [kind |-> "reportinfo", id |-> id, script |-> script, ret |-> r.ret,
                   log |-> r.log, out |-> [err |-> r.err, len |-> r.len]]

ApplyReport ==
    /\ q = NoQuery
    /\ \E id \in {MT_INFO_SENSORDIM} :
       \E infoScript \in Scripts({BadSync(8), ReportInfoReply(id, 0, 2, 0),
                                  ReportInfoReply(id, 16, 2, 0)}) :
         LET info == getReportInfo(infoScript, id)
         IN  \E dataScript \in Scripts({BadSync(info.len + 6),
                                        ReportReply(id, info.len, 1, 0),
                                        ReportReply(id, info.len, 1, 1)}) :
               LET r == getReport(infoScript, dataScript, id)
               IN  q' = [kind |-> "report", id |-> id, script |-> infoScript,
                         script2 |-> dataScript, ret |-> r.ret, log |-> r.log,
                         out |-> [wrote |-> r.wrote, outLen |-> r.outLen, data |-> r.data]]

ApplyFrameLength ==
    /\ q = NoQuery
    /\ \E script \in Scripts(FrameLenResponses)
                       \cup { << FrameLenReply(len, Hi8(len) + Lo8(len) + ckoff) >> :
                                len \in {8, 261, 1000, 1001, 65535}, ckoff \in {0, 256} },
          nop \in {NOP_A, NOP_B}, maxpkt \in {8, 1000} :
         LET r == readFrameLength(script, nop, maxpkt)
         IN  q' = [kind |-> "framelen", script |-> script, nop |-> nop, maxpkt |-> maxpkt,
                   ret |-> r.ret, log |-> r.log, out |-> [len |-> r.len]]

ApplyFrameData ==
    /\ q = NoQuery
    /\ \E len \in FrameLengths : \E script \in Scripts(FrameDataResponses(len)) :
         LET r == readResultData(script, len + 1)
         IN  q' = [kind |-> "framedata", len |-> len, script |-> script, ret |-> r.ret,
                   log |-> r.log, out |-> [frame |-> r.frame]]

ApplyASpeed ==
    /\ q = NoQuery
    /\ \E n \in {0, 3, ChunkMax, ChunkMax + 2, 2 * ChunkMax, (3 * ChunkMax) + 10} :
       \E script \in Scripts(VerifyTags) :
         LET r == loadASpeedFirmware(script, Image(n))
         IN  q' = [kind |-> "aspeed", len |-> n, script |-> script, ret |-> r.ret,
                   log |-> r.log]

ApplyMain ==
    /\ q = NoQuery
    /\ \E n \in {0, 3, 600} : \E script \in Scripts(VerifyTags) :
         LET r == loadMainFirmware(script, Image(n))
         IN  q' = [kind |-> "mainfw", len |-> n, script |-> script, ret |-> r.ret,
                   checksum |-> r.checksum, log |-> r.log]

(***************************************************************************)
(* newPacket: the decoder of one frame.  data is the memory from the start *)
(* of the frame header onwards (InputPacket + 1 and what follows it in the *)
(* buffer), fields are little-endian at the offsets of the packed structs  *)
(* MTFrameHeader and FingerData.  Every input_* call is one event.         *)
(***************************************************************************)
MAX_FINGER_ORIENTATION == 16384
FingerDataSize == 28

U16(data, off) == B(data, off) + (256 * B(data, off + 1))

S16Unsigned(data, off) == U16(data, off)

S16(data, off) == IF U16(data, off) >= 32768 THEN U16(data, off) - 65536
                  ELSE U16(data, off)

PutU16(data, off, v) == Patch(Patch(data, off, v % 256), off + 1, (v \div 256) % 256)

Ev(type, code, value) == [type |-> type, code |-> code, value |-> value]

FloorForceUnfloored(force, floor) == force

\* lines 431-432: the force above the floor, 0 at or below it
FloorForce(force, floor) ==
    IF force > floor THEN force - floor ELSE 0

\* the pass with input_mt_sync inside the if of line 445
FingerPassSyncInside(data, finger, floor, SensorHeight) ==
    LET d1 == PutU16(data, finger + 18,
                     FloorForce(U16(data, finger + 18), floor))
        d2 == PutU16(d1, finger + 20,
                     FloorForce(U16(d1, finger + 20), floor))
    IN  [data   |-> d2,
         events |->
           IF U16(d2, finger + 18) > 0 \/ U16(d2, finger + 20) > 0
           THEN << Ev("abs", "ABS_MT_TOUCH_MAJOR", U16(d2, finger + 18)),
                   Ev("abs", "ABS_MT_TOUCH_MINOR", U16(d2, finger + 20)),
                   Ev("abs", "ABS_MT_WIDTH_MAJOR", U16(d2, finger + 12)),
                   Ev("abs", "ABS_MT_WIDTH_MINOR", U16(d2, finger + 14)),
                   Ev("abs", "ABS_MT_ORIENTATION",
                      MAX_FINGER_ORIENTATION - U16(d2, finger + 16)),
                   Ev("abs", "ABS_MT_TRACKING_ID", B(d2, finger)),
                   Ev("abs", "ABS_MT_POSITION_X", S16(d2, finger + 4)),
                   Ev("abs", "ABS_MT_POSITION_Y",
                      SensorHeight - S16(d2, finger + 6)),
                   Ev("mt_sync", "", 0) >>
           ELSE << >>]

\* lines 431-457 for the record at offset finger: the two stores, the events
FingerPass(data, finger, floor, SensorHeight) ==
    LET d1 == PutU16(data, finger + 18,
                     FloorForce(U16(data, finger + 18), floor))
        d2 == PutU16(d1, finger + 20,
                     FloorForce(U16(d1, finger + 20), floor))
    IN  [data   |-> d2,
         events |->
           (IF U16(d2, finger + 18) > 0 \/ U16(d2, finger + 20) > 0
            THEN << Ev("abs", "ABS_MT_TOUCH_MAJOR", U16(d2, finger + 18)),
                    Ev("abs", "ABS_MT_TOUCH_MINOR", U16(d2, finger + 20)),
                    Ev("abs", "ABS_MT_WIDTH_MAJOR", U16(d2, finger + 12)),
                    Ev("abs", "ABS_MT_WIDTH_MINOR", U16(d2, finger + 14)),
                    Ev("abs", "ABS_MT_ORIENTATION",
                       MAX_FINGER_ORIENTATION - U16(d2, finger + 16)),
                    Ev("abs", "ABS_MT_TRACKING_ID", B(d2, finger)),
                    Ev("abs", "ABS_MT_POSITION_X", S16(d2, finger + 4)),
                    Ev("abs", "ABS_MT_POSITION_Y",
                       SensorHeight - S16(d2, finger + 6)) >>
            ELSE << >>)
           \o << Ev("mt_sync", "", 0) >>]

\* lines 429-460: fingers holds, per pass of the loop, the cursor, the record
\* as it was read there and the events of that pass
RECURSIVE newPacketLoop(_, _, _, _, _, _, _)
newPacketLoop(data, finger, i, numFingers, fingerDataLen, floor, SensorHeight) ==
    IF i < numFingers
    THEN LET p    == FingerPass(data, finger, floor, SensorHeight)
             rest == newPacketLoop(p.data, finger + fingerDataLen, i + 1, numFingers,
                                   fingerDataLen, floor, SensorHeight)
         IN  [data    |-> rest.data,
              fingers |-> << [at     |-> finger,
                              rec    |-> SubSeq(data, finger + 1,
                                                finger + FingerDataSize),
                              events |-> p.events] >> \o rest.fingers,
              events  |-> p.events \o rest.events]
    ELSE [data |-> data, fingers |-> << >>, events |-> << >>]

\* the single-touch report deciding on the major force of the first record
LegacyReportFromMajor(data, SensorHeight) ==
    IF B(data, 16) > 0
    THEN LET finger == B(data, 2)
         IN  IF U16(data, finger + 18) > 0
             THEN << Ev("abs", "ABS_X", S16(data, finger + 4)),
                     Ev("abs", "ABS_Y", SensorHeight - S16(data, finger + 6)),
                     Ev("key", "BTN_TOUCH",
                        IF U16(data, finger + 14) > 0 THEN 1 ELSE 0) >>
             ELSE << Ev("key", "BTN_TOUCH", 0) >>
    ELSE << >>

\* lines 462-471: the single-touch report from the first record
LegacyReport(data, SensorHeight) ==
    IF B(data, 16) > 0
    THEN LET finger == B(data, 2)
         IN  IF U16(data, finger + 20) > 0
             THEN << Ev("abs", "ABS_X", S16(data, finger + 4)),
                     Ev("abs", "ABS_Y", SensorHeight - S16(data, finger + 6)),
                     Ev("key", "BTN_TOUCH",
                        IF U16(data, finger + 14) > 0 THEN 1 ELSE 0) >>
             ELSE << Ev("key", "BTN_TOUCH", 0) >>
    ELSE << >>

\* the decoder dropping a frame of unknown type or with headerLen < 12
newPacketStrict(data, floor, SensorHeight) ==
    IF (B(data, 0) # 68 /\ B(data, 0) # 67) \/ B(data, 2) < 12
    THEN [data |-> data, fingers |-> << >>, events |-> << >>]
    ELSE LET l == newPacketLoop(data, B(data, 2), 0, B(data, 16), B(data, 17),
                                floor, SensorHeight)
         IN  [data    |-> l.data,
              fingers |-> l.fingers,
              events  |-> l.events \o LegacyReport(l.data, SensorHeight)
                                   \o << Ev("sync", "", 0) >>]

newPacket(data, floor, SensorHeight) ==
    LET l == newPacketLoop(data, B(data, 2), 0, B(data, 16), B(data, 17),
                           floor, SensorHeight)
    IN  [data    |-> l.data,
         fingers |-> l.fingers,
         events  |-> l.events \o LegacyReport(l.data, SensorHeight)
                              \o << Ev("sync", "", 0) >>]

(***************************************************************************)
(* Frames as the device lays them out: a header of headerLen bytes with    *)
(* the fields of MTFrameHeader, then numFingers records of fingerDataLen   *)
(* bytes each with the fields of FingerData.                               *)
(***************************************************************************)
LE16(v) == << v % 256, (v \div 256) % 256 >>

FingerRecord(f, fingerDataLen) ==
    << f.id, 1, 0, 0 >> \o LE16((f.x + 65536) % 65536)
       \o LE16((f.y + 65536) % 65536) \o << 0, 0, 0, 0 >>
       \o LE16(f.size_major) \o LE16(f.size_minor) \o LE16(f.orientation)
       \o LE16(f.force_major) \o LE16(f.force_minor) \o Fill(0, fingerDataLen - 22)

FramePayload(type, headerLen, fs, fingerDataLen) ==
    << type, 0, headerLen >> \o Fill(0, 13) \o << Len(fs), fingerDataLen >>
       \o Fill(0, headerLen - 18)
       \o [ i \in 1..(Len(fs) * fingerDataLen) |->
              FingerRecord(fs[((i - 1) \div fingerDataLen) + 1],
                           fingerDataLen)[((i - 1) % fingerDataLen) + 1] ]

\* the finger records a frame carries, the forces placed around the floor F
FingerLists(F) ==
    LET Finger(id, x, y, force_major, force_minor) ==
          [id |-> id, x |-> x, y |-> y, size_major |-> 40 + id,
           size_minor |-> 30 + id, orientation |-> 1000 * id,
           force_major |-> force_major, force_minor |-> force_minor]
        around == { Finger(1, 100, 200, F, F),
                    Finger(2, 0, 16000, F + 1, F),
                    Finger(3, 9000, 0, 0, 0),
                    Finger(4, 7, 13850, F, F + 50),
                    Finger(5, -3, -5, F + 1, 65535),
                    Finger(6, 1, 32767, 65535, 0),
                    [Finger(7, 5, 6, 0, F + 2) EXCEPT !.size_minor = 0] }
    IN  { << >> } \cup { << f >> : f \in around }
                  \cup { << f, g >> : f \in { Finger(1, 100, 200, F, F),
                                             Finger(2, 0, 16000, F + 1, F) },
                                     g \in around }

\* the capacity of OutputPacket, InputPacket, GetInfoPacket and GetResultPacket
PacketBufferSize == 1024

\* the offset behind the last byte of data that newPacket reads or writes
\* whatever the forces are: the header fields type, headerLen, numFingers and
\* fingerDataLen (lines 418-429, 455), and force_major and force_minor of the
\* record at headerLen + i * fingerDataLen for each i < numFingers (431-443)
newPacketExtent(data) ==
    LET headerLen     == B(data, 2)
        numFingers    == B(data, 16)
        fingerDataLen == B(data, 17)
        last          == headerLen + ((numFingers - 1) * fingerDataLen) + 22
    IN  IF numFingers > 0 /\ last > 18 THEN last ELSE 18

\* newPacket(data, len) on the bytes of InputPacket + 1, of which the first
\* len are the frame received and the rest hold zeros; headerLen, numFingers
\* and fingerDataLen are bytes of the frame for len >= 18
ApplyDecodeExtent ==
    /\ q = NoQuery
    /\ \E len \in {14, 18, 46, 80, 1021}, headerLen \in {0, 12, 24, 255},
          numFingers \in {0, 1, 2, 255}, fingerDataLen \in {0, 28, 255} :
         LET data == IF len >= 18
                     THEN Patch(Patch(Patch(Fill(0, PacketBufferSize - 1), 2, headerLen),
                                      16, numFingers), 17, fingerDataLen)
                     ELSE Patch(Fill(0, PacketBufferSize - 1), 2, headerLen)
         IN  q' = [kind |-> "extent", len |-> len, headerLen |-> B(data, 2),
                   numFingers |-> B(data, 16), fingerDataLen |-> B(data, 17),
                   extent |-> newPacketExtent(data)]

\* lines 347-358: the range zephyr_setup registers for an axis
AxisRange(code, SensorWidth, SensorHeight) ==
    LET m == IF SensorHeight > SensorWidth THEN SensorHeight ELSE SensorWidth
    IN  CASE code \in {"ABS_X", "ABS_MT_POSITION_X"} -> 0..SensorWidth
          [] code \in {"ABS_Y", "ABS_MT_POSITION_Y"} -> 0..SensorHeight
          [] code \in {"ABS_MT_TOUCH_MAJOR", "ABS_MT_TOUCH_MINOR",
                       "ABS_MT_WIDTH_MAJOR", "ABS_MT_WIDTH_MINOR"} -> 0..m
          [] code = "ABS_MT_ORIENTATION" ->
               (0 - MAX_FINGER_ORIENTATION)..MAX_FINGER_ORIENTATION
          [] code = "ABS_MT_TRACKING_ID" -> 0..32

ApplyDecode ==
    /\ q = NoQuery
    /\ \E min_p \in 0..254, layout \in { << 28, 15936, 10356 >>, << 30, 0, 0 >> } :
       \E fs \in FingerLists(min_p) :
         LET fingerDataLen == layout[1]
             SensorHeight  == layout[2]
             data == FramePayload(68, 24, fs, fingerDataLen)
             r    == newPacket(data, min_p, SensorHeight)
         IN  q' = [kind |-> "decode", fs |-> fs, data |-> data, min_pressure |-> min_p,
                   SensorHeight |-> SensorHeight, SensorWidth |-> layout[3],
                   fingerDataLen |-> fingerDataLen,
                   after |-> r.data, fingers |-> r.fingers, events |-> r.events]

\* makeBootloaderDataPacket on OutputPacket, 0x400 bytes that hold zeros, 0xFF
\* or an earlier frame, for a chunk of n bytes
ApplyBootloaderPacket ==
    /\ q = NoQuery
    /\ \E address \in {ASpeedBase, ASpeedBase + ChunkMax, 16909060},
          n \in {0, 3, ChunkMax - 1, ChunkMax, ChunkMax + 1},
          before \in {"zeros", "ones", "frame"} :
         LET held == CASE before = "zeros" -> Fill(0, 1024)
                       [] before = "ones"  -> Fill(255, 1024)
                       [] before = "frame" ->
                            makeBootloaderDataPacket(Fill(0, 1024), ASpeedBase,
                                                     Image(ChunkMax), ChunkMax).output
         IN  \E r \in { makeBootloaderDataPacket(held, address, Image(n), n) } :
               q' = [kind |-> "bootpkt", address |-> address, len |-> n,
                     before |-> before, ret |-> r.ret, checksum |-> r.checksum,
                     output |-> r.output]

\* verifyUpload on the checksum of a chunk or of a main image and a response
\* that is the device's readback of that checksum or differs from it in a byte
ApplyVerify ==
    /\ q = NoQuery
    /\ \E sent \in {"chunk", "main"}, n \in {3, 600},
          address \in {ASpeedBase, ASpeedBase + ChunkMax}, at \in 0..4,
          b \in {0, 1, 208, 255} :
         LET checksum == IF sent = "chunk"
                         THEN makeBootloaderChecksum(address, Image(n), n)
                         ELSE loadMainFirmware(<< "ack" >>, Image(n)).checksum
             ack      == VerifyReply("ack", checksum)
             rx       == IF at = 4 THEN ack ELSE Patch(ack, at, b)
         IN  q' = [kind |-> "verify", sent |-> sent, len |-> n, address |-> address,
                   checksum |-> checksum, rx |-> rx, ret |-> verifyUpload(rx, checksum)]

(***************************************************************************)
(* One validator applied to a response and to the same response with the   *)
(* byte at index at (0-based) replaced by another value.                   *)
(***************************************************************************)
Validates(validator, rx, id, len, maxpkt) ==
    CASE validator = "framelen"   -> FrameLengthAccepts(rx, maxpkt)
      [] validator = "reportinfo" -> ReportInfoAccepts(rx, id)
      [] validator = "report"     -> ReportAccepts(rx, id, len)
      [] validator = "framedata"  -> ResultDataAccepts(rx, len + 1)

ApplyValidator ==
    /\ q = NoQuery
    /\ \E validator \in {"framelen", "reportinfo", "report", "framedata"},
          id \in {MT_INFO_FAMILYID, MT_INFO_SENSORDIM}, len \in FrameLengths,
          maxpkt \in {8, DefaultMaxPacketSize} :
       LET responses ==
             CASE validator = "framelen"   -> FrameLenResponses
               [] validator = "reportinfo" -> ReportInfoResponses(id)
               [] validator = "report"     -> ReportResponses(id, len)
               [] validator = "framedata"  -> FrameDataResponses(len)
       IN  \E rx \in responses :
           \E at \in 0..(Len(rx) - 1), b \in {0, 1, 5, 170, 255} :
             /\ b # B(rx, at)
             /\ q' = [kind |-> "validate", validator |-> validator, rx |-> rx,
                      at |-> at, changed |-> Patch(rx, at, b),
                      accepted |-> Validates(validator, rx, id, len, maxpkt),
                      acceptedChanged |->
                          Validates(validator, Patch(rx, at, b), id, len, maxpkt)]

(***************************************************************************)
(* The session after zephyr_probe (lines 1019-1047).  The memset of line   *)
(* 1023 has its arguments swapped and clears nothing, so the fields probe  *)
(* does not assign hold whatever the allocation held: CurNOP and           *)
(* MaxPacketSize, which can be read before bring-up assigns them, start    *)
(* with any of the values below.                                           *)
(***************************************************************************)
Handlers == 1..NHandlers

SetupThread == 0

Threads == {SetupThread} \cup Handlers

UninitNOP == {0, NOP_B}

UninitMaxPacketSize == {0, DefaultMaxPacketSize}

ScratchPackets == {"OutputPacket", "InputPacket", "GetInfoPacket", "GetResultPacket"}

NoGeometry ==
    [FamilyID |-> 0, SensorColumns |-> 0, SensorRows |-> 0, BCDVersion |-> 0,
     Endianness |-> 0, SensorRegionDescriptorLen |-> 0, SensorRegionParamLen |-> 0,
     SensorWidth |-> 0, SensorHeight |-> 0]

RfIdle ==
    [pc |-> "idle", try |-> 0, nop |-> 0, ret |-> 0, emitted |-> FALSE,
     after_fail |-> FALSE]

Init ==
    /\ CurNOP \in UninitNOP
    /\ irq_count = 0
    /\ firmware_loaded = FALSE
    /\ InterfaceVersion = 0
    /\ MaxPacketSize \in UninitMaxPacketSize
    /\ geometry = NoGeometry
    /\ allocated = {}
    /\ setup_pc = "call"
    /\ setup_ret = 0
    /\ reportBuffer = <<>>
    /\ reportLen = 0
    /\ irq_requested = FALSE
    /\ work_pending = FALSE
    /\ wk = [h \in Handlers |-> "idle"]
    /\ rf = [t \in Threads |-> RfIdle]
    /\ frames = 0
    /\ delivered = 0
    /\ triggers = 0
    /\ passes = 0
    /\ sched_unloaded = FALSE
    /\ steps = <<>>
    /\ exhausted = FALSE
    /\ q = NoQuery
    /\ min_pressure = 100

(***************************************************************************)
(* readFrame (lines 476-511), one activation per calling thread.  One pass *)
(* of its for loop reads the frame length and, for a nonzero length, the   *)
(* frame data, which readResultData hands to newPacket (lines 413-474);    *)
(* newPacket ends every decoded frame with input_sync.  The poll-token     *)
(* flip of lines 499-502 is a load of CurNOP followed by a store, with no  *)
(* lock held.                                                              *)
(***************************************************************************)
\* one pass that treats a frame length of 0 like a failed length query
readFramePassEmptyRetries(lenScript, dataScript, nop, maxpkt) ==
    LET l == readFrameLength(lenScript, nop, maxpkt)
    IN  IF ~l.ret \/ l.len = 0
        THEN [outcome |-> "retry", len |-> 0, frame |-> <<>>, log |-> l.log]
        ELSE LET d == readResultData(dataScript, l.len + 1)
             IN  IF ~d.ret
                 THEN [outcome |-> "retry", len |-> l.len, frame |-> <<>>,
                       log |-> l.log \o d.log]
                 ELSE [outcome |-> "decoded", len |-> l.len, frame |-> d.frame,
                       log |-> l.log \o d.log]

readFramePass(lenScript, dataScript, nop, maxpkt) ==
    LET l == readFrameLength(lenScript, nop, maxpkt)
    IN  IF ~l.ret THEN [outcome |-> "retry", len |-> 0, frame |-> <<>>, log |-> l.log]
        ELSE IF l.len # 0
        THEN LET d == readResultData(dataScript, l.len + 1)
             IN  IF ~d.ret
                 THEN [outcome |-> "retry", len |-> l.len, frame |-> <<>>,
                       log |-> l.log \o d.log]
                 ELSE [outcome |-> "decoded", len |-> l.len, frame |-> d.frame,
                       log |-> l.log \o d.log]
        ELSE [outcome |-> "nodata", len |-> 0, frame |-> <<>>, log |-> l.log]

\* whether line 372 has run: the poll token has been set to 0x64
NopSet == setup_pc \in {"count", "loaded", "reading", "returned_ok"}

\* whether zephyr_setup has returned 0: the session is in its steady state
SteadyState == setup_pc = "returned_ok"

RfCall ==
    [pc |-> "pass", try |-> 0, nop |-> 0, ret |-> 0, emitted |-> FALSE,
     after_fail |-> FALSE]

\* the end of one pass of the for loop: ++try or return -1 after a failure,
\* return 0 for an empty frame, the poll-token flip after a decoded frame
\* the pass without the continue of line 496: a failed frame-data query
\* falls through to the flip
RfAfterPassFallThrough(r, p, nop) ==
    CASE p.outcome = "retry" /\ p.len = 0 ->
           IF r.try + 1 < 4
           THEN [r EXCEPT !.try = r.try + 1]
           ELSE [r EXCEPT !.pc = "ret", !.try = r.try + 1, !.ret = -1]
      [] p.outcome = "retry" /\ p.len # 0 -> [r EXCEPT !.pc = "store", !.nop = nop]
      [] p.outcome = "nodata" -> [r EXCEPT !.pc = "ret", !.ret = 0]
      [] p.outcome = "decoded" -> [r EXCEPT !.pc = "store", !.nop = nop, !.emitted = TRUE]

RfAfterPass(r, p, nop) ==
    CASE p.outcome = "retry" ->
           IF r.try + 1 < 4
           THEN [r EXCEPT !.try = r.try + 1]
           ELSE [r EXCEPT !.pc = "ret", !.try = r.try + 1, !.ret = -1]
      [] p.outcome = "nodata" -> [r EXCEPT !.pc = "ret", !.ret = 0]
      [] p.outcome = "decoded" -> [r EXCEPT !.pc = "store", !.nop = nop, !.emitted = TRUE]

\* the decoder run on every pass, validated or not
FramesAfterPassAlways(n, p) == n + 1

\* newPacket runs, and reports to the event sink, for a validated frame only
FramesAfterPass(n, p) == IF p.outcome = "decoded" THEN n + 1 ELSE n

RF_Pass(t) ==
    /\ rf[t].pc = "pass"
    /\ \E lenScript \in RunScripts(FrameLenResponses) :
         LET l == readFrameLength(lenScript, CurNOP, MaxPacketSize)
         IN  \E dataScript \in RunScripts(FrameDataResponses(l.len)) :
               LET p == readFramePass(lenScript, dataScript, CurNOP, MaxPacketSize)
                   r == RfAfterPass(rf[t], p, CurNOP)
               IN  /\ rf' = [rf EXCEPT ![t] = r]
                   /\ frames' = FramesAfterPass(frames, p)
                   /\ exhausted' = (exhausted \/ (SteadyState /\ r.pc = "ret" /\ r.ret = -1))
    /\ UNCHANGED << min_pressure, CurNOP, irq_count, firmware_loaded, InterfaceVersion, MaxPacketSize,
                    geometry, allocated, setup_pc, setup_ret, reportBuffer, reportLen,
                    irq_requested, work_pending, wk, delivered, triggers,
                    passes, sched_unloaded, steps, q >>

FlipStore(nop) == IF nop = NOP_A THEN NOP_B ELSE NOP_A

RF_FlipStore(t) ==
    /\ rf[t].pc = "store"
    /\ CurNOP' = FlipStore(rf[t].nop)
    /\ rf' = [rf EXCEPT ![t] = [@ EXCEPT !.pc = "ret", !.ret = 1]]
    /\ delivered' = IF NopSet THEN delivered + 1 ELSE delivered
    /\ UNCHANGED << min_pressure, irq_count, firmware_loaded, InterfaceVersion, MaxPacketSize,
                    geometry, allocated, setup_pc, setup_ret, reportBuffer, reportLen,
                    irq_requested, work_pending, wk, frames, triggers,
                    passes, sched_unloaded, steps, exhausted, q >>

(***************************************************************************)
(* zephyr_irq (lines 889-901).  The handler reads firmware_loaded through  *)
(* the token request_irq registered (line 187), which is a null pointer    *)
(* and not the session: what the read yields is not determined by the      *)
(* session's flag.  schedule_work on a work item that is already pending   *)
(* does nothing.                                                           *)
(***************************************************************************)
IrqToken == "null"

IrqSees == IF IrqToken = "session" THEN {firmware_loaded} ELSE BOOLEAN

zephyr_irq ==
    /\ irq_requested
    /\ triggers < MaxTriggers
    /\ \E seen \in IrqSees :
         IF ~seen
         THEN UNCHANGED << min_pressure, work_pending, triggers, sched_unloaded >>
         ELSE /\ work_pending' = TRUE
              /\ triggers' = triggers + 1
              /\ sched_unloaded' = (sched_unloaded \/ ~firmware_loaded)
    /\ UNCHANGED << min_pressure, CurNOP, irq_count, firmware_loaded, InterfaceVersion, MaxPacketSize,
                    geometry, allocated, setup_pc, setup_ret, reportBuffer, reportLen,
                    irq_requested, wk, rf, frames, delivered, passes, steps,
                    exhausted, q >>

(***************************************************************************)
(* zephyr_irq_work (lines 382-411).  Lines 389-401 run with irq_lock held: *)
(* the increment, the early return and the first loop test are one step;   *)
(* so are lines 405-408 after each readFrame.  The work item scheduled is  *)
(* the static zephyr_workqueue (line 166), not the irq_work member of a    *)
(* session, so the session pointer of line 384 is not derived from a       *)
(* session; the model follows the handler on the session that bring-up     *)
(* configured.                                                             *)
(***************************************************************************)
WorkEnter(h) ==
    /\ work_pending
    /\ wk[h] = "idle"
    /\ \A g \in Handlers : g < h => wk[g] # "idle"
    /\ work_pending' = FALSE
    /\ irq_count' = irq_count + 1
    /\ IF irq_count + 1 > 1
       THEN UNCHANGED << min_pressure, wk, rf, passes >>
       ELSE IF irq_count + 1 > 0
       THEN /\ wk' = [wk EXCEPT ![h] = "reading"]
            /\ rf' = [rf EXCEPT ![h] = [RfCall EXCEPT !.after_fail = exhausted]]
            /\ passes' = passes + 1
       ELSE UNCHANGED << min_pressure, wk, rf, passes >>
    /\ UNCHANGED << min_pressure, CurNOP, firmware_loaded, InterfaceVersion, MaxPacketSize,
                    geometry, allocated, setup_pc, setup_ret, reportBuffer, reportLen,
                    irq_requested, frames, delivered, triggers, sched_unloaded,
                    steps, exhausted, q >>

WorkAfterRead(h) ==
    /\ wk[h] = "reading"
    /\ rf[h].pc = "ret"
    /\ irq_count' = irq_count - 1
    /\ IF irq_count - 1 > 0
       THEN /\ rf' = [rf EXCEPT ![h] = [RfCall EXCEPT !.after_fail = exhausted]]
            /\ passes' = passes + 1
            /\ UNCHANGED wk
       ELSE /\ rf' = [rf EXCEPT ![h] = RfIdle]
            /\ wk' = [wk EXCEPT ![h] = "idle"]
            /\ UNCHANGED passes
    /\ UNCHANGED << min_pressure, CurNOP, firmware_loaded, InterfaceVersion, MaxPacketSize,
                    geometry, allocated, setup_pc, setup_ret, reportBuffer, reportLen,
                    irq_requested, work_pending, frames, delivered, triggers,
                    sched_unloaded, steps, exhausted, q >>

(***************************************************************************)
(* zephyr_setup (lines 168-380), called once by got_main (line 963) with   *)
(* the two firmware images.  steps records each step that ran, in order,   *)
(* with its outcome.                                                       *)
(***************************************************************************)
ASpeedFirmware == Image(3)

MainFirmware == Image(5)

Mod16(x) == ((x % 65536) + 65536) % 65536

\* (base - raw) * 84 / 73 in unsigned 32-bit arithmetic (lines 304-305), raw
\* being the little-endian word at buf[at..at+3]; computed on 16-bit halves
SensorDim(base, buf, at) ==
    LET rawLo == B(buf, at) + (256 * B(buf, at + 1))
        rawHi == B(buf, at + 2) + (256 * B(buf, at + 3))
        dLo   == Mod16(base - rawLo)
        dHi   == Mod16(0 - rawHi - (IF rawLo > base THEN 1 ELSE 0))
        pLo   == (dLo * 84) % 65536
        pHi   == ((dHi * 84) + ((dLo * 84) \div 65536)) % 65536
        qHi   == pHi \div 73
        qLo   == (((pHi % 73) * 65536) + pLo) \div 73
    IN  (qHi * 65536) + qLo

ReportStages == <<"familyid", "sensorinfo", "regiondesc", "regionparam", "sensordim">>

StageId(pc) ==
    CASE pc = "familyid"    -> MT_INFO_FAMILYID
      [] pc = "sensorinfo"  -> MT_INFO_SENSORINFO
      [] pc = "regiondesc"  -> MT_INFO_SENSORREGIONDESC
      [] pc = "regionparam" -> MT_INFO_SENSORREGIONPARAM
      [] pc = "sensordim"   -> MT_INFO_SENSORDIM

\* the sensor-info and region-descriptor queries in the other order
StageNextSwapped(pc) ==
    CASE pc = "familyid"    -> "regiondesc"
      [] pc = "regiondesc"  -> "sensorinfo"
      [] pc = "sensorinfo"  -> "regionparam"
      [] pc = "regionparam" -> "sensordim"
      [] pc = "sensordim"   -> "input"

StageNext(pc) ==
    CASE pc = "familyid"    -> "sensorinfo"
      [] pc = "sensorinfo"  -> "regiondesc"
      [] pc = "regiondesc"  -> "regionparam"
      [] pc = "regionparam" -> "sensordim"
      [] pc = "sensordim"   -> "input"

\* what the failure branch of each getReport call frees before return -1
StageFrees(pc) ==
    CASE pc = "regionparam" -> ScratchPackets \cup {"SensorRegionDescriptor"}
      [] pc = "sensordim"   -> ScratchPackets \cup {"SensorRegionDescriptor", "SensorRegionParam"}
      [] OTHER              -> ScratchPackets

\* what the success path of each getReport call allocates
StageAllocates(pc) ==
    CASE pc = "regiondesc"  -> {"SensorRegionDescriptor"}
      [] pc = "regionparam" -> {"SensorRegionParam"}
      [] OTHER              -> {}

StageGeometry(pc, g, buf, len) ==
    CASE pc = "familyid"    -> [g EXCEPT !.FamilyID = B(buf, 0)]
      [] pc = "sensorinfo"  -> [g EXCEPT !.SensorColumns = B(buf, 2),
                                         !.SensorRows = B(buf, 1),
                                         !.BCDVersion = BE16(B(buf, 3), B(buf, 4)),
                                         !.Endianness = B(buf, 0)]
      [] pc = "regiondesc"  -> [g EXCEPT !.SensorRegionDescriptorLen = len]
      [] pc = "regionparam" -> [g EXCEPT !.SensorRegionParamLen = len]
      [] pc = "sensordim"   -> [g EXCEPT !.SensorWidth = SensorDim(9000, buf, 0),
                                         !.SensorHeight = SensorDim(13850, buf, 4)]

\* memcpy(buffer, &InputPacket[4], len) into the bytes of reportBuffer
CopyInto(buf, data, len) ==
    [i \in 1..Len(buf) |-> IF i <= len THEN data[i] ELSE buf[i]]

Step(tag, id, ok) == [step |-> tag, id |-> id, ok |-> ok]

SetupUnchangedIrq ==
    UNCHANGED << min_pressure, CurNOP, irq_count, firmware_loaded, work_pending, wk, rf,
                 frames, delivered, triggers, passes, sched_unloaded, exhausted, q >>

SetupFail(freed) ==
    /\ allocated' = allocated \ freed
    /\ setup_ret' = -1
    /\ setup_pc' = "returned_fail"

\* lines 179-198: the scratch packets, the interrupt, the power cycle
S_Begin ==
    /\ setup_pc = "call"
    /\ allocated' = allocated \cup ScratchPackets
    /\ irq_requested' \in BOOLEAN
    /\ setup_pc' = "aspeed"
    /\ UNCHANGED << min_pressure, InterfaceVersion, MaxPacketSize, geometry, setup_ret, reportBuffer,
                    reportLen, steps >>
    /\ SetupUnchangedIrq

\* lines 200-210
S_LoadASpeed ==
    /\ setup_pc = "aspeed"
    /\ \E script \in RunScripts(VerifyTags) :
         LET ok == loadASpeedFirmware(script, ASpeedFirmware).ret
         IN  /\ steps' = Append(steps, Step("aspeed", 0, ok))
             /\ IF ok
                THEN setup_pc' = "main" /\ UNCHANGED << min_pressure, allocated, setup_ret >>
                ELSE SetupFail(ScratchPackets)
    /\ UNCHANGED << min_pressure, InterfaceVersion, MaxPacketSize, geometry, reportBuffer, reportLen,
                    irq_requested >>
    /\ SetupUnchangedIrq

\* lines 212-222
S_LoadMain ==
    /\ setup_pc = "main"
    /\ \E script \in RunScripts(VerifyTags) :
         LET ok == loadMainFirmware(script, MainFirmware).ret
         IN  /\ steps' = Append(steps, Step("main", 0, ok))
             /\ IF ok
                THEN setup_pc' = "ifver" /\ UNCHANGED << min_pressure, allocated, setup_ret >>
                ELSE SetupFail(ScratchPackets)
    /\ UNCHANGED << min_pressure, InterfaceVersion, MaxPacketSize, geometry, reportBuffer, reportLen,
                    irq_requested >>
    /\ SetupUnchangedIrq

\* lines 224-234: on success the report buffer is allocated, uninitialised
S_InterfaceVersion ==
    /\ setup_pc = "ifver"
    /\ \E script \in RunScripts(IfVerResponses) :
         LET r == determineInterfaceVersion(script, InterfaceVersion, MaxPacketSize)
         IN  /\ InterfaceVersion' = r.InterfaceVersion
             /\ MaxPacketSize' = r.MaxPacketSize
             /\ steps' = Append(steps, Step("ifver", 0, r.ret))
             /\ IF r.ret
                THEN /\ setup_pc' = "familyid"
                     /\ allocated' = allocated \cup {"reportBuffer"}
                     /\ \E g \in {0, 255} : reportBuffer' = Fill(g, 8)
                     /\ UNCHANGED setup_ret
                ELSE SetupFail(ScratchPackets) /\ UNCHANGED reportBuffer
    /\ UNCHANGED << min_pressure, geometry, reportLen, irq_requested >>
    /\ SetupUnchangedIrq

\* lines 236-305: the five report queries
S_Report ==
    /\ setup_pc \in {ReportStages[i] : i \in 1..5}
    /\ LET id == StageId(setup_pc)
       IN  \E infoScript \in RunScripts(RunReportInfoResponses(id)) :
             LET info == getReportInfo(infoScript, id)
             IN  \E dataScript \in RunScripts(RunReportResponses(id, info.len)) :
                   LET r   == getReport(infoScript, dataScript, id)
                       buf == IF r.wrote THEN CopyInto(reportBuffer, r.data, r.outLen)
                              ELSE reportBuffer
                       len == IF r.wrote THEN r.outLen ELSE reportLen
                   IN  /\ reportBuffer' = buf
                       /\ reportLen' = len
                       /\ steps' = Append(steps, Step("report", id, r.ret))
                       /\ IF r.ret
                          THEN /\ geometry' = StageGeometry(setup_pc, geometry, buf, len)
                               /\ allocated' = allocated \cup StageAllocates(setup_pc)
                               /\ setup_pc' = StageNext(setup_pc)
                               /\ UNCHANGED setup_ret
                          ELSE /\ SetupFail(StageFrees(setup_pc))
                               /\ UNCHANGED geometry
    /\ UNCHANGED << min_pressure, InterfaceVersion, MaxPacketSize, irq_requested >>
    /\ SetupUnchangedIrq

\* lines 324-336: the report buffer is freed, the input device allocated
S_InputAllocate ==
    /\ setup_pc = "input"
    /\ \E ok \in BOOLEAN :
         /\ steps' = Append(steps, Step("input_allocate", 0, ok))
         /\ IF ok
            THEN /\ allocated' = (allocated \ {"reportBuffer"}) \cup {"input_dev"}
                 /\ setup_pc' = "register"
                 /\ UNCHANGED setup_ret
            ELSE /\ allocated' = (allocated \ {"reportBuffer"})
                        \ (ScratchPackets \cup {"SensorRegionDescriptor", "SensorRegionParam"})
                 /\ setup_ret' = -1
                 /\ setup_pc' = "returned_fail"
    /\ UNCHANGED << min_pressure, InterfaceVersion, MaxPacketSize, geometry, reportBuffer, reportLen,
                    irq_requested >>
    /\ SetupUnchangedIrq

\* lines 339-372: axis ranges, input_register_device, then CurNOP = 0x64
S_Register ==
    /\ setup_pc = "register"
    /\ \E ret \in {0, -1} :
         /\ steps' = Append(steps, Step("register", 0, ret = 0))
         /\ IF ret # 0
            THEN /\ SetupFail(ScratchPackets \cup {"SensorRegionDescriptor", "SensorRegionParam"})
                 /\ UNCHANGED CurNOP
            ELSE /\ CurNOP' = NOP_A
                 /\ setup_pc' = "count"
                 /\ UNCHANGED << min_pressure, allocated, setup_ret >>
    /\ UNCHANGED << min_pressure, InterfaceVersion, MaxPacketSize, geometry, reportBuffer, reportLen,
                    irq_requested >>
    /\ UNCHANGED << min_pressure, irq_count, firmware_loaded, work_pending, wk, rf,
                    frames, delivered, triggers, passes, sched_unloaded, exhausted, q >>

\* line 373
S_ResetCount ==
    /\ setup_pc = "count"
    /\ irq_count' = 0
    /\ setup_pc' = "loaded"
    /\ UNCHANGED << min_pressure, CurNOP, firmware_loaded, InterfaceVersion, MaxPacketSize, geometry,
                    allocated, setup_ret, reportBuffer, reportLen, irq_requested,
                    work_pending, wk, rf, frames, delivered, triggers, passes,
                    sched_unloaded, steps, exhausted, q >>

\* lines 375-377: firmware_loaded = true, then the call of readFrame
S_SetLoaded ==
    /\ setup_pc = "loaded"
    /\ firmware_loaded' = TRUE
    /\ rf' = [rf EXCEPT ![SetupThread] = RfCall]
    /\ setup_pc' = "reading"
    /\ UNCHANGED << min_pressure, CurNOP, irq_count, InterfaceVersion, MaxPacketSize, geometry,
                    allocated, setup_ret, reportBuffer, reportLen, irq_requested,
                    work_pending, wk, frames, delivered, triggers, passes,
                    sched_unloaded, steps, exhausted, q >>

\* line 379
S_Return ==
    /\ setup_pc = "reading"
    /\ rf[SetupThread].pc = "ret"
    /\ rf' = [rf EXCEPT ![SetupThread] = RfIdle]
    /\ setup_ret' = 0
    /\ setup_pc' = "returned_ok"
    /\ UNCHANGED << min_pressure, CurNOP, irq_count, firmware_loaded, InterfaceVersion, MaxPacketSize,
                    geometry, allocated, reportBuffer, reportLen, irq_requested,
                    work_pending, wk, frames, delivered, triggers, passes,
                    sched_unloaded, steps, exhausted, q >>

Next ==
    \/ S_Begin
    \/ S_LoadASpeed
    \/ S_LoadMain
    \/ S_InterfaceVersion
    \/ S_Report
    \/ S_InputAllocate
    \/ S_Register
    \/ S_ResetCount
    \/ S_SetLoaded
    \/ S_Return
    \/ zephyr_irq
    \/ \E h \in Handlers : WorkEnter(h)
    \/ \E h \in Handlers : WorkAfterRead(h)
    \/ \E t \in Threads : RF_Pass(t)
    \/ \E t \in Threads : RF_FlipStore(t)

Spec == Init /\ [][Next]_vars

(***************************************************************************)
(* The program with a controller that raises its attention line only once  *)
(* zephyr_setup has returned 0: the behaviours of Spec in which no         *)
(* interrupt arrives during bring-up.                                      *)
(***************************************************************************)
AttentionAfterBringUp == SteadyState /\ zephyr_irq

(***************************************************************************)
(* readFrame (lines 476-511) as one call: pass try talks to the transport  *)
(* scripted by lenScripts[try + 1] and dataScripts[try + 1].  InputPacket  *)
(* is 0x400 bytes from kmalloc and a transfer overwrites only its first    *)
(* bytes: prior is what the buffer held before the call, and the decoder   *)
(* is handed InputPacket + 1, the accepted response and after it whatever  *)
(* prior held there.                                                       *)
(***************************************************************************)
RECURSIVE readFrameLoop(_, _, _, _, _)
readFrameLoop(lenScripts, dataScripts, nop, maxpkt, try) ==
    IF try < 4
    THEN LET p == readFramePass(Resp(lenScripts, try + 1), Resp(dataScripts, try + 1),
                                nop, maxpkt)
         IN  IF p.outcome = "retry"
             THEN LET rest == readFrameLoop(lenScripts, dataScripts, nop, maxpkt, try + 1)
                  IN  [rest EXCEPT !.passes = << p.log >> \o @, !.log = p.log \o @]
             ELSE [ret |-> IF p.outcome = "decoded" THEN 1 ELSE 0, frame |-> p.frame,
                   passes |-> << p.log >>, log |-> p.log]
    ELSE [ret |-> -1, frame |-> << >>, passes |-> << >>, log |-> << >>]

\* the call with a fifth pass of the loop after four failed ones
readFrameFivePasses(lenScripts, dataScripts, nop, maxpkt, floor, SensorHeight, prior) ==
    LET r == readFrameLoop(lenScripts, dataScripts, nop, maxpkt, 0)
        p == readFramePass(Resp(lenScripts, 5), Resp(dataScripts, 5), nop, maxpkt)
    IN  IF r.ret = -1
        THEN [ret |-> -1, CurNOP |-> nop, passes |-> r.passes \o << p.log >>,
              log |-> r.log \o p.log, events |-> << >>]
        ELSE [ret |-> r.ret, CurNOP |-> nop, passes |-> r.passes, log |-> r.log,
              events |-> << >>]

\* InputPacket after the accepted frame-data response: the sync byte, the
\* frame, its two checksum bytes, and behind them what the buffer held before
InputPacketAfter(frame, prior) ==
    LET ck == SumBytes(frame, 0, Len(frame) - 1) % 65536
        rx == << SYNC >> \o frame \o << Hi8(ck), Lo8(ck) >>
    IN  rx \o SubSeq(prior, Len(rx) + 1, Len(prior))

\* r and mem range over one-element sets, which evaluates each of them once
readFrame(lenScripts, dataScripts, nop, maxpkt, floor, SensorHeight, prior) ==
    CHOOSE res \in UNION {
        { [ret    |-> r.ret,
           CurNOP |-> IF r.ret = 1 THEN FlipStore(nop) ELSE nop,
           passes |-> r.passes,
           log    |-> r.log,
           events |-> IF r.ret = 1
                      THEN newPacket(Tail(mem), floor, SensorHeight).events
                      ELSE << >>] : mem \in { InputPacketAfter(r.frame, prior) } }
        : r \in { readFrameLoop(lenScripts, dataScripts, nop, maxpkt, 0) } } : TRUE

\* what the transport does during one pass of the loop: the answers to the
\* frame-length requests and to the frame-data requests, for frames of 5 bytes
PassScripts ==
    LET bad8  == BadSync(8)
        len5  == FrameLenReply(5, 5)
        bad6  == BadSync(6)
        data5 == FrameDataReply(5, 1, 0)
    IN  { << << bad8 >>, << bad6 >> >>,
          << << FrameLenReply(5, 6) >>, << data5 >> >>,
          << << FrameLenReply(0, 0) >>, << bad6 >> >>,
          << << bad8, FrameLenReply(0, 0) >>, << bad6 >> >>,
          << << len5 >>, << data5 >> >>,
          << << len5 >>, << FrameDataReply(5, 1, 1) >> >>,
          << << bad8, bad8, bad8, len5 >>, << bad6 >> >>,
          << << bad8, bad8, bad8, len5 >>, << bad6, bad6, bad6, data5 >> >> }

ApplyReadFrame ==
    /\ q = NoQuery
    /\ \E script \in [1..4 -> PassScripts], nop \in {NOP_A, NOP_B} :
         LET r == readFrame([i \in 1..4 |-> script[i][1]], [i \in 1..4 |-> script[i][2]],
                            nop, DefaultMaxPacketSize, 100, 15936, Fill(0, 64))
         IN  q' = [kind |-> "readframe", script |-> script, nop |-> nop, ret |-> r.ret,
                   CurNOP |-> r.CurNOP, passes |-> r.passes, log |-> r.log,
                   events |-> r.events]

\* one finger record at offset 12 of a frame: the record's x field lies over
\* the header's numFingers and fingerDataLen (1 record of 28 bytes)
FrameFingerAt12(size_minor, force_minor) ==
    << 68, 0, 12 >> \o Fill(0, 9)
       \o FingerRecord([id |-> 1, x |-> 1 + (256 * FingerDataSize), y |-> 200,
                        size_major |-> 41, size_minor |-> size_minor,
                        orientation |-> 1000, force_major |-> 0,
                        force_minor |-> force_minor], FingerDataSize)

\* the response that carries the first len - 2 bytes of a frame
FrameDataCarrying(frame, len) ==
    LET body == SubSeq(frame, 1, len - 2)
        ck   == SumBytes(body, 0, len - 3) % 65536
    IN  << SYNC >> \o body \o << Hi8(ck), Lo8(ck) >>

\* readFrame on a transport that answers the length request with len and the
\* data request with that many bytes of the 40-byte frame above; InputPacket
\* held zeros, or the response to an earlier read of the whole frame
ApplyEndToEnd ==
    /\ q = NoQuery
    /\ \E len \in {16, 42}, size_minor \in {0, 31}, force_minor \in {100, 150},
          priorKind \in {"zeros", "earlier"} :
         LET frame == FrameFingerAt12(size_minor, force_minor)
             prior == IF priorKind = "zeros" THEN Fill(0, 64)
                      ELSE FrameDataCarrying(frame, 42) \o Fill(0, 21)
             r     == readFrame(<< << FrameLenReply(len, len) >> >>,
                                << << FrameDataCarrying(frame, len) >> >>,
                                NOP_A, DefaultMaxPacketSize, 100, 15936, prior)
         IN  q' = [kind |-> "endtoend", len |-> len, size_minor |-> size_minor,
                   force_minor |-> force_minor, min_pressure |-> 100,
                   prior |-> priorKind, ret |-> r.ret, CurNOP |-> r.CurNOP,
                   log |-> r.log, events |-> r.events]

\* readFrame on a transport that delivers a frame of 24 header bytes and the
\* records fs whose type and headerLen bytes are the given ones: with
\* headerLen < 24 the records the decoder reads begin inside the header
ApplyAnomalousFrame ==
    /\ q = NoQuery
    /\ \E type \in {0, 67, 68, 69}, headerLen \in {0, 11, 12, 24},
          nop \in {NOP_A, NOP_B}, fs \in FingerLists(100) :
         LET frame == Patch(FramePayload(type, 24, fs, FingerDataSize), 2, headerLen)
             len   == Len(frame) + 2
         IN  \E r \in { readFrame(<< << FrameLenReply(len, len) >> >>,
                                  << << FrameDataCarrying(frame, len) >> >>,
                                  nop, DefaultMaxPacketSize, 100, 15936, Fill(0, 64)) } :
               q' = [kind |-> "anomalous", type |-> type, headerLen |-> headerLen,
                     nop |-> nop, fs |-> fs, frame |-> frame, ret |-> r.ret,
                     CurNOP |-> r.CurNOP, log |-> r.log, events |-> r.events]

\* two calls of readFrame.  The transport answers the first one with a frame.
\* In the second one it answers the length request, and every frame-data
\* exchange ends with an error status from spi_sync (mt_txrx, lines 942-945,
\* returns it; line 522 drops it) and leaves InputPacket as the first call
\* left it: readResultData then examines those bytes.
ApplyTransportError ==
    /\ q = NoQuery
    /\ \E fs \in FingerLists(100), nop \in {NOP_A, NOP_B} :
         LET frame == FramePayload(68, 24, fs, FingerDataSize)
             len   == Len(frame) + 2
             ok    == FrameDataCarrying(frame, len)
         IN  \E first \in { readFrame(<< << FrameLenReply(len, len) >> >>, << << ok >> >>,
                                      nop, DefaultMaxPacketSize, 100, 15936,
                                      Fill(0, len + 1)) } :
             \E held \in { << SYNC >> \o newPacket(Tail(ok), 100, 15936).data } :
             \E second \in { readFrame(<< << FrameLenReply(len, len) >> >>,
                                       << << held >> >>, first.CurNOP,
                                       DefaultMaxPacketSize, 100, 15936, held) } :
               q' = [kind |-> "txerror", fs |-> fs, nop |-> nop, first |-> first,
                     held |-> held, second |-> second]

\* the exchanges of one pass of readFrame after the device negotiated a maximum
\* packet size and announced a frame length, and those of getReport after the
\* device announced a 12-bit report length
ApplyTransferSize ==
    /\ q = NoQuery
    /\ \/ \E size \in {1000, 1023, 1024, 65535}, len \in {999, 1000, 1023, 1024, 65535} :
          \E v \in { determineInterfaceVersion(<< << SYNC, 1, Hi8(size), Lo8(size) >> >>,
                                               0, 0) } :
          \E p \in { readFramePass(<< FrameLenReply(len, Hi8(len) + Lo8(len)) >>,
                                   << BadSync(len + 1) >>, NOP_A, v.MaxPacketSize) } :
            q' = [kind |-> "transfer", query |-> "frame", MaxPacketSize |-> v.MaxPacketSize,
                  len |-> len, log |-> v.log \o p.log]
       \/ \E len \in {2, 1018, 1019, 4095} :
          \E r \in { getReport(<< ReportInfoReply(MT_INFO_SENSORREGIONDESC,
                                                  Hi8(len), Lo8(len), 0) >>,
                               << BadSync(len + 6) >>, MT_INFO_SENSORREGIONDESC) } :
            q' = [kind |-> "transfer", query |-> "report",
                  MaxPacketSize |-> DefaultMaxPacketSize, len |-> len, log |-> r.log]

\* lines 304-305 applied to a sensor-dimension report that carries the two
\* 32-bit little-endian fields raw_x and raw_y
ApplySensorDim ==
    /\ q = NoQuery
    /\ \E raw_x \in {0, 1, 73, 8999, 9000, 9001, 65536, 16777215},
          raw_y \in {0, 13849, 13850, 13851, 65535, 16777216} :
         LET LE32(v) == LE16(v % 65536) \o LE16(v \div 65536)
             buf     == LE32(raw_x) \o LE32(raw_y)
         IN  q' = [kind |-> "sensordim", raw_x |-> raw_x, raw_y |-> raw_y, buf |-> buf,
                   SensorWidth |-> SensorDim(9000, buf, 0),
                   SensorHeight |-> SensorDim(13850, buf, 4)]

(***************************************************************************)
(* zephyr_min_pressure_store (lines 997-1014), the write handler of the    *)
(* min_pressure attribute that zephyr_probe creates (line 1041).  ret is   *)
(* what sscanf returned (1, or 0 or -1 when the text holds no unsigned     *)
(* number) and new_val the number it stored.                               *)
(***************************************************************************)
min_pressure_store_truncating(floor, ret, new_val) ==
    IF ret <= 0 THEN [min_pressure |-> floor, ret |-> ret]
    ELSE [min_pressure |-> new_val % 256, ret |-> ret]

min_pressure_store(floor, ret, new_val) ==
    IF ret <= 0 THEN [min_pressure |-> floor, ret |-> ret]
    ELSE IF new_val >= 255 THEN [min_pressure |-> floor, ret |-> 0]
    ELSE [min_pressure |-> new_val % 256, ret |-> ret]

zephyr_min_pressure_store ==
    /\ q = NoQuery \/ (q.kind = "store" /\ q.writes < MaxWrites)
    /\ \E ret \in {-1, 0, 1} :
       \E new_val \in IF ret = 1 THEN (0..257) \cup {65536, 2147483647} ELSE {0} :
       LET r == min_pressure_store(min_pressure, ret, new_val)
       IN  /\ min_pressure' = r.min_pressure
           /\ q' = [kind |-> "store", before |-> min_pressure, sscanf |-> ret,
                    new_val |-> new_val, ret |-> r.ret,
                    writes |-> IF q = NoQuery THEN 1 ELSE q.writes + 1]
           /\ UNCHANGED << CurNOP, irq_count, firmware_loaded, InterfaceVersion,
                           MaxPacketSize, geometry, allocated, setup_pc, setup_ret,
                           reportBuffer, reportLen, irq_requested, work_pending, wk,
                           rf, frames, delivered, triggers, passes, sched_unloaded,
                           steps, exhausted >>

NextQuiet ==
    \/ S_Begin
    \/ S_LoadASpeed
    \/ S_LoadMain
    \/ S_InterfaceVersion
    \/ S_Report
    \/ S_InputAllocate
    \/ S_Register
    \/ S_ResetCount
    \/ S_SetLoaded
    \/ S_Return
    \/ AttentionAfterBringUp
    \/ \E h \in Handlers : WorkEnter(h)
    \/ \E h \in Handlers : WorkAfterRead(h)
    \/ \E t \in Threads : RF_Pass(t)
    \/ \E t \in Threads : RF_FlipStore(t)

SpecQuiet == Init /\ [][NextQuiet]_vars

QueryUnchanged ==
    UNCHANGED << min_pressure, CurNOP, irq_count, firmware_loaded, InterfaceVersion, MaxPacketSize,
                 geometry, allocated, setup_pc, setup_ret, reportBuffer, reportLen,
                 irq_requested, work_pending, wk, rf,
                 frames, delivered, triggers, passes, sched_unloaded, steps,
                 exhausted >>

NextQuery ==
    \/ ApplyInterfaceVersion /\ QueryUnchanged
    \/ ApplyReportInfo /\ QueryUnchanged
    \/ ApplyReport /\ QueryUnchanged
    \/ ApplyFrameLength /\ QueryUnchanged
    \/ ApplyFrameData /\ QueryUnchanged
    \/ ApplyASpeed /\ QueryUnchanged
    \/ ApplyMain /\ QueryUnchanged
    \/ ApplyValidator /\ QueryUnchanged
    \/ ApplyVerify /\ QueryUnchanged
    \/ ApplyBootloaderPacket /\ QueryUnchanged
    \/ ApplyDecode /\ QueryUnchanged
    \/ ApplySensorDim /\ QueryUnchanged
    \/ ApplyEndToEnd /\ QueryUnchanged
    \/ ApplyReadFrame /\ QueryUnchanged
    \/ ApplyAnomalousFrame /\ QueryUnchanged
    \/ ApplyTransferSize /\ QueryUnchanged
    \/ ApplyTransportError /\ QueryUnchanged
    \/ ApplyDecodeExtent /\ QueryUnchanged

InitQuery == Init /\ CurNOP = 0 /\ MaxPacketSize = DefaultMaxPacketSize

SpecQuery == InitQuery /\ [][NextQuery]_vars

\* the session with nothing but writes to the attribute going on
SpecTunable == InitQuery /\ [][zephyr_min_pressure_store]_vars

(***************************************************************************)
(* Properties.                                                             *)
(***************************************************************************)
PollTokenFor(n) == IF n % 2 = 0 THEN 100 ELSE 101

C2_BringUpExclusive == \A h \in Handlers : wk[h] = "reading" => SteadyState

C5_DroppedWhileNotLoaded ==
    /\ ~sched_unloaded
    /\ \A h \in Handlers : wk[h] = "reading" => firmware_loaded

AllBadSync(script) == \A i \in 1..Len(script) : script[i][1] # 170

AllNoSync(script) == \A i \in 1..Len(script) : script[i] = "nosync"

CountKind(log, kind) == Cardinality({i \in 1..Len(log) : log[i].kind = kind})

\* C6: against a transport that always answers with a bad sync byte, each
\* query makes exactly 4 exchanges and fails, and a first-stage chunk upload
\* and the main-firmware upload make exactly 5 transmit-and-verify cycles and
\* fail.
C6_RetryBounds ==
    /\ (q.kind \in {"ifver", "reportinfo", "framelen", "framedata"} /\ AllBadSync(q.script))
         => (~q.ret /\ Len(q.log) = 4)
    /\ (q.kind = "report" /\ AllBadSync(q.script) /\ AllBadSync(q.script2))
         => (~q.ret /\ Len(q.log) = 4)
    /\ (q.kind = "report" /\ CountKind(q.log, "report") > 0 /\ AllBadSync(q.script2))
         => (~q.ret /\ CountKind(q.log, "report") = 4)
    /\ (q.kind = "aspeed" /\ q.len > 0 /\ AllNoSync(q.script))
         => (~q.ret /\ CountKind(q.log, "chunk") = 5 /\ CountKind(q.log, "verify") = 5
             /\ Len(q.log) = 10)
    /\ (q.kind = "mainfw" /\ AllNoSync(q.script))
         => (~q.ret /\ CountKind(q.log, "mainfw") = 5 /\ CountKind(q.log, "verify") = 5
             /\ CountKind(q.log, "execute") = 0)

C6_Witness ==
    /\ q.kind = "framelen"
    /\ AllBadSync(q.script)
    /\ ~q.ret
    /\ Len(q.log) = 4

\* a valid response: the sync byte, a matching checksum, and for a frame
\* length a value within the negotiated maximum
ValidIfVer(rx) == rx[1] = 170

ValidFrameLength(rx, maxpkt) ==
    /\ rx[1] = 170
    /\ (rx[7] * 256) + rx[8] = rx[5] + rx[6]
    /\ (rx[5] * 256) + rx[6] <= maxpkt

ValidReportInfo(rx, id) ==
    /\ rx[1] = 170
    /\ (rx[7] * 256) + rx[8] = id + rx[5] + rx[6]

ValidFrameData(rx, len) ==
    /\ rx[1] = 170
    /\ (rx[len] * 256) + rx[len + 1] = SumBytes(rx, 1, len - 2) % 65536

ValidReport(rx, id, len) ==
    /\ rx[1] = 170
    /\ (rx[len + 5] * 256) + rx[len + 6] = (id + SumBytes(rx, 4, len + 3)) % 65536

ReportInfoLen(rx) == ((rx[5] % 16) * 256) + rx[6]

ReportInfoErr(rx) == rx[5] \div 16

Least(S) == CHOOSE i \in S : \A j \in S : i <= j

\* the attempts of a script that receive a valid response
ValidAttempts(kind) ==
    CASE kind = "ifver" ->
           {i \in 1..Len(q.script) : ValidIfVer(q.script[i])}
      [] kind = "framelen" ->
           {i \in 1..Len(q.script) : ValidFrameLength(q.script[i], q.maxpkt)}
      [] kind = "framedata" ->
           {i \in 1..Len(q.script) : ValidFrameData(q.script[i], q.len)}
      [] kind \in {"reportinfo", "report"} ->
           {i \in 1..Len(q.script) : ValidReportInfo(q.script[i], q.id)}

\* C7: a query whose first k attempts (k < 4) fail validation and whose
\* attempt k + 1 receives a valid response succeeds with the payload of that
\* response and makes no exchange after it.
C7_TransientFailureRetried ==
    /\ (q.kind = "ifver" /\ ValidAttempts("ifver") # {} /\ Least(ValidAttempts("ifver")) <= 4)
         => LET k == Least(ValidAttempts("ifver"))
            IN  /\ q.ret
                /\ Len(q.log) = k
                /\ q.out.InterfaceVersion = q.script[k][2]
                /\ q.out.MaxPacketSize = (q.script[k][3] * 256) + q.script[k][4]
    /\ (q.kind = "framelen" /\ ValidAttempts("framelen") # {}
          /\ Least(ValidAttempts("framelen")) <= 4)
         => LET k == Least(ValidAttempts("framelen"))
            IN  /\ q.ret
                /\ Len(q.log) = k
                /\ q.out.len = (q.script[k][5] * 256) + q.script[k][6]
    /\ (q.kind = "framedata" /\ ValidAttempts("framedata") # {}
          /\ Least(ValidAttempts("framedata")) <= 4)
         => LET k == Least(ValidAttempts("framedata"))
            IN  /\ q.ret
                /\ Len(q.log) = k
                /\ q.out.frame = SubSeq(q.script[k], 2, q.len - 1)
    /\ (q.kind = "reportinfo" /\ ValidAttempts("reportinfo") # {}
          /\ Least(ValidAttempts("reportinfo")) <= 4)
         => LET k == Least(ValidAttempts("reportinfo"))
            IN  /\ q.ret
                /\ Len(q.log) = k
                /\ q.out.len = ReportInfoLen(q.script[k])
                /\ q.out.err = ReportInfoErr(q.script[k])
    /\ (q.kind = "report" /\ ValidAttempts("report") # {}
          /\ Least(ValidAttempts("report")) <= 4)
         => LET k   == Least(ValidAttempts("report"))
                len == ReportInfoLen(q.script[k])
                ok  == {i \in 1..Len(q.script2) : ValidReport(q.script2[i], q.id, len)}
            IN  (ReportInfoErr(q.script[k]) = 0 /\ ok # {} /\ Least(ok) <= 4)
                  => /\ q.ret
                     /\ Len(q.log) = k + Least(ok)
                     /\ q.out.outLen = len
                     /\ q.out.data = SubSeq(q.script2[Least(ok)], 5, len + 4)

\* a bad sync byte, then a checksum mismatch, then an oversized length, then
\* a valid frame length of 5
C7_Witness ==
    /\ q.kind = "framelen"
    /\ q.maxpkt = 8
    /\ q.script = << BadSync(8), FrameLenReply(5, 6), FrameLenReply(9, 9), FrameLenReply(5, 5) >>
    /\ q.ret
    /\ Len(q.log) = 4
    /\ q.out.len = 5

SetupBuffers ==
    ScratchPackets \cup {"reportBuffer", "SensorRegionDescriptor", "SensorRegionParam"}

\* C8: when zephyr_setup returns failure, every buffer it had allocated (the
\* four scratch packets, the report buffer, the region descriptor and region
\* parameter blobs) has been released.
C8_BuffersReleased == setup_pc = "returned_fail" => allocated \cap SetupBuffers = {}

BringUpOrder ==
    << <<"aspeed", 0>>, <<"main", 0>>, <<"ifver", 0>>, <<"report", 209>>, <<"report", 211>>,
       <<"report", 208>>, <<"report", 161>>, <<"report", 217>>, <<"input_allocate", 0>>,
       <<"register", 0>> >>

\* C9: the steps of bring-up run in the order first-stage load, main load,
\* interface version, reports 0xD1, 0xD3, 0xD0, 0xA1, 0xD9, event-sink
\* allocation, registration; a failed step is the last one that runs;
\* firmware_loaded is true only after all of them succeeded and is false
\* whenever bring-up has returned failure.
C9_LinearBringUp ==
    /\ Len(steps) <= Len(BringUpOrder)
    /\ \A i \in 1..Len(steps) : << steps[i].step, steps[i].id >> = BringUpOrder[i]
    /\ \A i \in 1..(Len(steps) - 1) : steps[i].ok
    /\ (Len(steps) > 0 /\ ~steps[Len(steps)].ok) => setup_pc = "returned_fail"
    /\ firmware_loaded => (Len(steps) = Len(BringUpOrder) /\ \A i \in 1..Len(steps) : steps[i].ok)
    /\ setup_pc = "returned_fail" => ~firmware_loaded

C9_Witness ==
    /\ SteadyState
    /\ firmware_loaded
    /\ Len(steps) = 10
    /\ steps[8] = Step("report", 217, TRUE)

\* a pass of thread t's readFrame that failed: it retries or returns -1
FailedPass(t) ==
    /\ rf[t].pc = "pass"
    /\ \/ rf'[t].pc = "pass" /\ rf'[t].try = rf[t].try + 1
       \/ rf'[t].pc = "ret" /\ rf'[t].ret = -1

C11_SingleByteCorruptionDetected ==
    (q.kind = "validate" /\ q.accepted) => ~q.acceptedChanged

MaxOf(a, b) == IF a >= b THEN a ELSE b

\* the values reported under one event code, in order
RECURSIVE ValuesOf(_, _)
ValuesOf(events, code) ==
    IF events = << >> THEN << >>
    ELSE (IF Head(events).code = code THEN << Head(events).value >> ELSE << >>)
         \o ValuesOf(Tail(events), code)

PositionCodes == << "ABS_MT_TOUCH_MAJOR", "ABS_MT_TOUCH_MINOR", "ABS_MT_WIDTH_MAJOR",
                   "ABS_MT_WIDTH_MINOR", "ABS_MT_ORIENTATION", "ABS_MT_TRACKING_ID",
                   "ABS_MT_POSITION_X", "ABS_MT_POSITION_Y" >>

\* the events of one finger are a positional observation (the eight axes, in
\* the order of the code) before the end-of-contact marker
HasPosition(f) ==
    /\ Len(f.events) = 9
    /\ \A j \in 1..8 : f.events[j].type = "abs" /\ f.events[j].code = PositionCodes[j]

\* C12: with floor F every finger record is emitted with forces max(raw - F, 0);
\* a record with both raw forces at or below F gives no positional observation
\* but still its end-of-contact marker, and the cursor advances by fingerDataLen
\* past it; a raw major force of F + 1 is emitted as 1.
C12_PressureFloor ==
    q.kind = "decode" =>
      /\ Len(q.fingers) = B(q.data, 16)
      /\ \A k \in 1..Len(q.fingers) :
           LET f        == q.fingers[k]
               F        == q.min_pressure
               rawMajor == U16(f.rec, 18)
               rawMinor == U16(f.rec, 20)
           IN  /\ f.at = B(q.data, 2) + ((k - 1) * q.fingerDataLen)
               /\ f.rec = SubSeq(q.data, f.at + 1, f.at + FingerDataSize)
               /\ f.events[Len(f.events)] = Ev("mt_sync", "", 0)
               /\ IF rawMajor <= F /\ rawMinor <= F
                  THEN Len(f.events) = 1
                  ELSE /\ HasPosition(f)
                       /\ f.events[1].value = MaxOf(rawMajor - F, 0)
                       /\ f.events[2].value = MaxOf(rawMinor - F, 0)
                       /\ f.events[1].value >= 0 /\ f.events[2].value >= 0
               /\ rawMajor = F + 1 => f.events[1] = Ev("abs", "ABS_MT_TOUCH_MAJOR", 1)
      /\ Len(ValuesOf(q.events, "")) = Len(q.fingers) + 1

\* a frame at the largest floor whose first record is at the floor and whose
\* second record is one above it
C12_Witness ==
    /\ q.kind = "decode" /\ q.min_pressure = 254 /\ Len(q.fingers) = 2
    /\ U16(q.fingers[1].rec, 18) = 254 /\ U16(q.fingers[1].rec, 20) = 254
    /\ q.fingers[1].events = << Ev("mt_sync", "", 0) >>
    /\ U16(q.fingers[2].rec, 18) = 255
    /\ q.fingers[2].events[1] = Ev("abs", "ABS_MT_TOUCH_MAJOR", 1)
    /\ q.fingers[2].at = q.fingers[1].at + q.fingerDataLen

\* C13: a positional observation carries Y = SensorHeight - y and orientation =
\* 16384 - orientation of its finger record, and the record's x, id, size_major
\* and size_minor unchanged as X, tracking id, width major and width minor.
C13_CoordinateTransforms ==
    q.kind = "decode" =>
      \A k \in 1..Len(q.fingers) :
        LET f   == q.fingers[k]
            raw == q.fs[k]
        IN  Len(f.events) > 1 =>
              /\ HasPosition(f)
              /\ f.events[3].value = raw.size_major
              /\ f.events[4].value = raw.size_minor
              /\ f.events[5].value = 16384 - raw.orientation
              /\ f.events[6].value = raw.id
              /\ f.events[7].value = raw.x
              /\ f.events[8].value = q.SensorHeight - raw.y

\* a record with y = 13850 and orientation 4000 on a sensor of height 15936,
\* and a record with negative x and y
C13_Witness ==
    /\ q.kind = "decode" /\ q.SensorHeight = 15936 /\ Len(q.fingers) = 2
    /\ q.fs[1].force_major > q.min_pressure
    /\ q.fs[2].y = 13850 /\ q.fs[2].orientation = 4000
    /\ HasPosition(q.fingers[2])
    /\ q.fingers[2].events[8] = Ev("abs", "ABS_MT_POSITION_Y", 2086)
    /\ q.fingers[2].events[5] = Ev("abs", "ABS_MT_ORIENTATION", 12384)
    /\ q.fingers[2].events[7] = Ev("abs", "ABS_MT_POSITION_X", 7)
    /\ q.fingers[1].events[8] = Ev("abs", "ABS_MT_POSITION_Y", -64)

\* C14: for every pair of raw fields of the sensor-dimension report the stored
\* width is (9000 - raw_x) * 84 / 73 and the stored height is
\* (13850 - raw_y) * 84 / 73 under integer division.
C14_GeometryFormula ==
    q.kind = "sensordim" =>
      /\ q.SensorWidth = ((9000 - q.raw_x) * 84) \div 73
      /\ q.SensorHeight = ((13850 - q.raw_y) * 84) \div 73

\* the chunk transmissions of an upload log, and the chunks they carry: a
\* retransmission repeats the address of the transmission before it
ChunkSends(log) == SelectSeq(log, LAMBDA x : x.kind = "chunk")

RECURSIVE SumLengths(_)
SumLengths(chunks) ==
    IF chunks = << >> THEN 0 ELSE Head(chunks).tx[2] + SumLengths(Tail(chunks))

\* C15: a first-stage image of n > 0 bytes whose every verify succeeds is sent
\* as ceil(n / 1016) chunks, all but the last of 1016 bytes, the lengths adding
\* up to n, the first addressed to 0x40000000 and each next one to the previous
\* address plus the previous length.
C15_ChunkPartition ==
    (q.kind = "aspeed" /\ q.len > 0 /\ \A i \in 1..Len(q.script) : q.script[i] = "ack") =>
      LET chunks == ChunkSends(q.log)
      IN  /\ q.ret
          /\ Len(chunks) = (q.len + 1015) \div 1016
          /\ \A k \in 1..(Len(chunks) - 1) : chunks[k].tx[2] = 1016
          /\ chunks[Len(chunks)].tx[2] \in 1..1016
          /\ SumLengths(chunks) = q.len
          /\ chunks[1].tx[1] = 1073741824
          /\ \A k \in 1..(Len(chunks) - 1) :
               chunks[k + 1].tx[1] = chunks[k].tx[1] + chunks[k].tx[2]

\* the image of 1016 * 3 + 10 bytes: four chunks, the last of 10 bytes
C15_Witness ==
    /\ q.kind = "aspeed" /\ q.len = 3058 /\ q.script = << "ack" >> /\ q.ret
    /\ Len(ChunkSends(q.log)) = 4
    /\ ChunkSends(q.log)[4].tx = << 1073741824 + 3048, 10 >>

\* C16: when the transport answers with frame length 16 and then a valid
\* frame-data response for a frame with one finger record at offset 12 whose
\* force_minor is 150, with floor 100, readFrame returns 1 and emits exactly
\* one positional observation with minor force 50, one BTN_TOUCH = 1, one
\* end-of-contact marker and one sync marker.
C16_EndToEnd ==
    (q.kind = "endtoend" /\ q.len = 16 /\ q.force_minor = 150 /\ q.min_pressure = 100) =>
      /\ q.ret = 1
      /\ ValuesOf(q.events, "ABS_MT_TOUCH_MINOR") = << 50 >>
      /\ ValuesOf(q.events, "ABS_MT_POSITION_X") = << 1 + (256 * FingerDataSize) >>
      /\ ValuesOf(q.events, "BTN_TOUCH") = << 1 >>
      /\ Len(SelectSeq(q.events, LAMBDA e : e.type = "mt_sync")) = 1
      /\ Len(SelectSeq(q.events, LAMBDA e : e.type = "sync")) = 1

\* C17: a write of a value of 255 or more to the pressure floor is rejected
\* and leaves the floor as it was, a write of a value in 0..254 sets the floor
\* to that value, and the floor is within 0..254 in every state, 100 before the
\* first write.
C17_FloorRange ==
    /\ min_pressure \in 0..254
    /\ q = NoQuery => min_pressure = 100
    /\ (q.kind = "store" /\ q.sscanf = 1) =>
         IF q.new_val >= 255
         THEN min_pressure = q.before /\ q.ret = 0
         ELSE min_pressure = q.new_val /\ q.ret = 1

\* the floor at 254, then a write of 255 that leaves it there
C17_Witness ==
    /\ q.kind = "store" /\ q.sscanf = 1 /\ q.new_val = 255 /\ q.before = 254
    /\ min_pressure = 254

\* the attempts of the interface-version query whose response starts with
\* the sync byte
SyncedAttempts(script) == { i \in 1..4 : Resp(script, i)[1] = 170 }

\* C18: when all four attempts of the interface-version query fail the sync
\* check it fails with version 0 and maximum packet size 1000; when some
\* attempt succeeds, also after failed ones, it succeeds with the version in
\* byte 1 and the maximum packet size in bytes 2..3 of that response.
C18_InterfaceVersionFallback ==
    q.kind = "ifver" =>
      IF SyncedAttempts(q.script) = {}
      THEN /\ ~q.ret
           /\ q.out = [InterfaceVersion |-> 0, MaxPacketSize |-> 1000]
      ELSE LET first == CHOOSE i \in SyncedAttempts(q.script) :
                          \A j \in SyncedAttempts(q.script) : i <= j
               rx    == Resp(q.script, first)
           IN  /\ q.ret
               /\ q.out = [InterfaceVersion |-> rx[2],
                           MaxPacketSize |-> (rx[3] * 256) + rx[4]]
               /\ Len(q.log) = first

\* three failed attempts and then version 2 with maximum packet size 8
C18_Witness ==
    /\ q.kind = "ifver" /\ q.ret
    /\ q.script = << BadSync(4), BadSync(4), BadSync(4), << 170, 2, 0, 8 >> >>
    /\ q.out = [InterfaceVersion |-> 2, MaxPacketSize |-> 8]

\* the number of exchanges of one kind in a log
Exchanges(log, kind) == Len(SelectSeq(log, LAMBDA x : x.kind = kind))

\* C19: every readFrame call returns after at most 4 passes of its loop, each
\* with at most 4 frame-length and at most 4 frame-data exchanges, so after at
\* most 32 transport exchanges, whatever the transport answers.
C19_ReadFrameTerminates ==
    q.kind = "readframe" =>
      /\ q.ret \in {-1, 0, 1}
      /\ Len(q.passes) \in 1..4
      /\ \A p \in 1..Len(q.passes) :
           /\ Exchanges(q.passes[p], "framelen") \in 1..4
           /\ Exchanges(q.passes[p], "framedata") \in 0..4
           /\ Len(q.passes[p]) = Exchanges(q.passes[p], "framelen")
                                   + Exchanges(q.passes[p], "framedata")
      /\ Len(q.log) <= 32
      /\ Len(q.log) = Exchanges(q.log, "framelen") + Exchanges(q.log, "framedata")
      /\ q.ret = -1 => Len(q.passes) = 4

\* four passes, each with three failed frame-length exchanges, an accepted
\* fourth and four failed frame-data exchanges
C19_Witness ==
    /\ q.kind = "readframe" /\ q.ret = -1
    /\ Len(q.passes) = 4 /\ Len(q.log) = 32
    /\ \A p \in 1..4 : Exchanges(q.passes[p], "framelen") = 4
                         /\ Exchanges(q.passes[p], "framedata") = 4

\* the data bytes of the cycles 1..m of an upload log that were acknowledged;
\* cycle m is the chunk transmission log[2m - 1] and the verify log[2m], which
\* the device answers with script entry m
RECURSIVE AckedLength(_, _, _)
AckedLength(log, script, m) ==
    IF m = 0 THEN 0
    ELSE AckedLength(log, script, m - 1)
           + (IF Resp(script, m) = "ack" THEN log[(2 * m) - 1].tx[2] ELSE 0)

\* C20: in the first-stage upload a chunk is transmitted only after a verify of
\* the chunk before it succeeded; the execute command is sent once, after
\* every chunk has been verified, and only then; a chunk that fails its verify
\* five times ends the load with failure, with no later chunk and no execute.
C20_UploadOrder ==
    q.kind = "aspeed" =>
      LET log      == q.log
          cycles   == (IF q.ret THEN Len(log) - 1 ELSE Len(log)) \div 2
          Acked(m) == Resp(q.script, m) = "ack"
          Addr(m)  == log[(2 * m) - 1].tx[1]
          Size(m)  == log[(2 * m) - 1].tx[2]
      IN  /\ Len(log) = (2 * cycles) + (IF q.ret THEN 1 ELSE 0)
          /\ \A m \in 1..cycles :
               log[(2 * m) - 1].kind = "chunk" /\ log[2 * m].kind = "verify"
          /\ cycles > 0 => Addr(1) = ASpeedBase
          /\ \A m \in 1..(cycles - 1) :
               IF Acked(m) THEN Addr(m + 1) = Addr(m) + Size(m)
               ELSE Addr(m + 1) = Addr(m) /\ Size(m + 1) = Size(m)
          /\ \A m \in 1..(cycles - 4) :
               (\A j \in m..(m + 4) : ~Acked(j) /\ Addr(j) = Addr(m))
                  => (m + 4 = cycles /\ ~q.ret)
          /\ Exchanges(log, "execute") = (IF q.ret THEN 1 ELSE 0)
          /\ q.ret => /\ log[Len(log)] = sendExecutePacket
                      /\ cycles > 0 => Acked(cycles)
                      /\ AckedLength(log, q.script, cycles) = q.len
          /\ ~q.ret => /\ cycles >= 5
                       /\ \A j \in (cycles - 4)..cycles :
                            ~Acked(j) /\ Addr(j) = Addr(cycles)
                       /\ AckedLength(log, q.script, cycles) < q.len

\* the 3058-byte image whose first chunk is retransmitted once and verified and
\* whose second chunk fails its verify five times
C20_Witness ==
    /\ q.kind = "aspeed" /\ q.len = 3058 /\ ~q.ret
    /\ q.script = << "corrupt", "ack", "nosync" >>
    /\ Len(q.log) = 14
    /\ q.log[5].tx = << ASpeedBase + 1016, 1016 >>
    /\ q.log[13].tx = << ASpeedBase + 1016, 1016 >>
    /\ Exchanges(q.log, "execute") = 0

\* C21: every attempt of the main-firmware upload is one blank-data command,
\* one transmit of the whole image at the fast profile and one verify against
\* the byte sum of the whole image, in this order; the attempts stop at the
\* first verify that succeeds; the execute command is sent once if one of at
\* most 5 attempts verified and never if all 5 fail.
C21_MainUploadOrder ==
    q.kind = "mainfw" =>
      LET acked    == { i \in 1..5 : Resp(q.script, i) = "ack" }
          attempts == IF acked = {} THEN 5
                      ELSE CHOOSE i \in acked : \A j \in acked : i <= j
      IN  /\ q.ret <=> acked # {}
          /\ q.checksum = SumBytes(Image(q.len), 0, q.len - 1)
          /\ Len(q.log) = (3 * attempts) + (IF q.ret THEN 1 ELSE 0)
          /\ \A m \in 1..attempts :
               /\ q.log[(3 * m) - 2] = sendBlankDataPacket
               /\ q.log[(3 * m) - 1].kind = "mainfw"
               /\ q.log[(3 * m) - 1].speed = "FAST_SPEED"
               /\ q.log[(3 * m) - 1].tx = Image(q.len)
               /\ q.log[(3 * m) - 1].len = q.len
               /\ q.log[3 * m] = VerifyXfer
          /\ Exchanges(q.log, "execute") = (IF q.ret THEN 1 ELSE 0)
          /\ q.ret => q.log[Len(q.log)] = sendExecutePacket

\* the 600-byte image verified at the third attempt
C21_Witness ==
    /\ q.kind = "mainfw" /\ q.len = 600 /\ q.ret
    /\ q.script = << "nosync", "corrupt", "ack" >>
    /\ Len(q.log) = 10
    /\ q.log[10] = sendExecutePacket

\* C22: a verify succeeds exactly when response bytes 0..1 are 0xD0, 0x00 and
\* bytes 2..3 are the big-endian checksum of what was just sent, the byte sum
\* of the chunk data and its 6 header bytes or of the whole main image; after
\* a failed verify the caller sends again.
C22_VerifyIff ==
    /\ q.kind = "verify" =>
         LET data == SumBytes(Image(q.len), 0, q.len - 1)
             sum  == IF q.sent = "main" THEN data
                     ELSE data + 194 + (q.address \div 16777216)
                               + ((q.address \div 65536) % 256)
                               + ((q.address \div 256) % 256) + (q.address % 256)
         IN  /\ q.checksum = sum
             /\ q.ret <=> q.rx = << 208, 0, (sum \div 256) % 256, sum % 256 >>
    /\ q.kind = "mainfw" =>
         \A m \in 1..4 :
           (3 * m <= Len(q.log) /\ Resp(q.script, m) # "ack")
              => q.log[(3 * m) + 2].kind = "mainfw"
    /\ q.kind = "aspeed" =>
         \A i \in 1..(Len(q.log) - 2) :
           (q.log[i].kind = "chunk" /\ q.log[i + 2].kind = "chunk"
              /\ Resp(q.script, (i + 1) \div 2) # "ack")
              => q.log[i + 2] = q.log[i]

\* a readback of a chunk checksum above 65535 that differs in the upper byte
C22_Witness ==
    /\ q.kind = "verify" /\ q.sent = "chunk" /\ q.checksum > 65535 /\ ~q.ret
    /\ q.rx[1] = 208 /\ q.rx[2] = 0 /\ q.rx[4] = q.checksum % 256
    /\ q.rx[3] # (q.checksum \div 256) % 256

\* C23: for every address and every chunk of dataLen <= 1016 bytes the
\* bootloader frame is 1024 defined bytes: 0xC2, the address big-endian, 0,
\* the chunk data, zeros up to index 1021 whatever the buffer held before, and
\* in bytes 1022..1023 the big-endian sum of the data and the 6 header bytes.
C23_BootloaderFrame ==
    (q.kind = "bootpkt" /\ q.len <= 1016) =>
      LET out == q.output
          sum == SumBytes(Image(q.len), 0, q.len - 1) + SumBytes(out, 0, 5)
      IN  /\ Len(out) = 1024
          /\ \A i \in 0..1023 : B(out, i) \in Byte
          /\ B(out, 0) = 194
          /\ (((B(out, 1) * 256) + B(out, 2)) * 256) + B(out, 3) = q.address \div 256
          /\ B(out, 4) = q.address % 256
          /\ B(out, 5) = 0
          /\ \A i \in 0..(q.len - 1) : B(out, 6 + i) = B(Image(q.len), i)
          /\ \A i \in (6 + q.len)..1021 : B(out, i) = 0
          /\ B(out, 1022) = (sum \div 256) % 256
          /\ B(out, 1023) = sum % 256
          /\ q.checksum = sum
          /\ q.ret = q.len

\* a 3-byte chunk framed in a buffer that held 0xFF everywhere
C23_Witness ==
    /\ q.kind = "bootpkt" /\ q.len = 3 /\ q.before = "ones" /\ q.address = 16909060
    /\ SubSeq(q.output, 1, 10) = << 194, 1, 2, 3, 4, 0, 7, 14, 21, 0 >>
    /\ B(q.output, 1021) = 0
    /\ B(q.output, 1022) = 0 /\ B(q.output, 1023) = 246

\* C24: the frame-length query sends 8 bytes equal to the poll token and
\* succeeds only on a response that starts with 0xAA, whose bytes 6..7 are
\* (byte 4 + byte 5) & 0xFFFF and whose length (byte 4 << 8 | byte 5) is at most
\* MaxPacketSize; the length it returns lies in 0..MaxPacketSize.
C24_FrameLengthQuery ==
    q.kind = "framelen" =>
      /\ \A i \in 1..Len(q.log) :
           q.log[i] = [kind |-> "framelen", tx |-> << q.nop, q.nop, q.nop, q.nop,
                                                      q.nop, q.nop, q.nop, q.nop >>,
                       len |-> 8]
      /\ q.ret =>
           LET rx == Resp(q.script, Len(q.log))
           IN  /\ rx[1] = 170
               /\ (rx[7] * 256) + rx[8] = (rx[5] + rx[6]) % 65536
               /\ (rx[5] * 256) + rx[6] <= q.maxpkt
               /\ q.out.len = (rx[5] * 256) + rx[6]
               /\ q.out.len \in 0..q.maxpkt
      /\ ~q.ret =>
           \A i \in 1..4 :
             LET rx == Resp(q.script, i)
             IN  \/ rx[1] # 170
                 \/ (rx[7] * 256) + rx[8] # (rx[5] + rx[6]) % 65536
                 \/ (rx[5] * 256) + rx[6] > q.maxpkt

\* a length equal to the limit of 1000 is returned
C24_Witness ==
    /\ q.kind = "framelen" /\ q.maxpkt = 1000
    /\ q.ret /\ q.out.len = 1000

\* the request of length + 1 bytes and the acceptance test of the frame-data
\* query, for a frame length q.len
FrameDataRequestAndTest ==
    /\ \A i \in 1..Len(q.log) :
         q.log[i].kind = "framedata" /\ q.log[i].len = q.len + 1
    /\ q.ret =>
         LET rx == Resp(q.script, Len(q.log))
         IN  /\ rx[1] = 170
             /\ SumBytes(rx, 1, q.len - 2) % 65536 = (rx[q.len] * 256) + rx[q.len + 1]
    /\ ~q.ret =>
         /\ Len(q.log) = 4
         /\ \A i \in 1..4 :
              LET rx == Resp(q.script, i)
              IN  \/ rx[1] # 170
                  \/ SumBytes(rx, 1, q.len - 2) % 65536 # (rx[q.len] * 256) + rx[q.len + 1]

\* C25 as stated: for a nonzero frame length, the frame-data query requests
\* length + 1 bytes, accepts only a response that starts with 0xAA and whose
\* last two bytes are the 16-bit sum of the bytes from index 1 up to them, and
\* hands the decoder response[1 .. length-2), the length - 3 bytes at indices
\* 1 to length - 3.
C25_FrameDataQueryAsStated ==
    q.kind = "framedata" =>
      /\ FrameDataRequestAndTest
      /\ q.ret =>
           q.out.frame = [i \in 1..(q.len - 3) |-> Resp(q.script, Len(q.log))[i + 1]]

\* C25, amended: as above, but the decoder is handed response[1 .. length-1),
\* the length - 2 bytes at indices 1 to length - 2, which are the bytes the
\* checksum covers.
C25_FrameDataQuery ==
    q.kind = "framedata" =>
      /\ FrameDataRequestAndTest
      /\ q.ret =>
           q.out.frame = [i \in 1..(q.len - 2) |-> Resp(q.script, Len(q.log))[i + 1]]

\* a 9-byte frame accepted on the second attempt
C25_Witness ==
    /\ q.kind = "framedata" /\ q.len = 9
    /\ q.ret /\ Len(q.log) = 2 /\ Len(q.out.frame) = 7

\* C27: when the report-info query fails on all 4 attempts, or its accepted
\* response carries a nonzero error code in the high nibble of byte 4,
\* getReport returns failure, makes no report-data exchange and leaves the
\* caller's buffer and output length unwritten.
C27_ReportShortCircuit ==
    q.kind = "report" =>
      LET InfoOk(i) == LET rx == Resp(q.script, i)
                       IN  /\ rx[1] = 170
                           /\ (rx[7] * 256) + rx[8] = (q.id + rx[5] + rx[6]) % 65536
          Accepted  == { i \in 1..4 : InfoOk(i) }
          First     == CHOOSE i \in Accepted : \A j \in Accepted : i <= j
      IN  (Accepted = {} \/ (Resp(q.script, First)[5] \div 16) % 16 # 0) =>
            /\ ~q.ret
            /\ \A i \in 1..Len(q.log) : q.log[i].kind = "reportinfo"
            /\ Len(q.log) = (IF Accepted = {} THEN 4 ELSE First)
            /\ ~q.out.wrote

\* error code 1 reported on the second report-info attempt
C27_Witness ==
    /\ q.kind = "report" /\ ~q.ret /\ Len(q.log) = 2
    /\ Resp(q.script, 1)[1] # 170
    /\ Resp(q.script, 2) = ReportInfoReply(q.id, 16, 2, 0)

\* C26: when the frame-length query of a pass of readFrame succeeds with
\* length 0, readFrame returns 0 ("no data", not the error -1) at once: that
\* pass makes no frame-data exchange and is the last one, no event is emitted
\* and the poll token stays.
C26_EmptyFrame ==
    q.kind = "readframe" =>
      \A k \in 1..Len(q.passes) :
        LET ls       == q.script[k][1]
            Ok(i)    == LET rx == Resp(ls, i)
                        IN  /\ rx[1] = 170
                            /\ (rx[7] * 256) + rx[8] = (rx[5] + rx[6]) % 65536
                            /\ (rx[5] * 256) + rx[6] <= DefaultMaxPacketSize
            Accepted == { i \in 1..4 : Ok(i) }
            First    == CHOOSE i \in Accepted : \A j \in Accepted : i <= j
        IN  (Accepted # {} /\ Resp(ls, First)[5] = 0 /\ Resp(ls, First)[6] = 0) =>
              /\ q.ret = 0
              /\ k = Len(q.passes)
              /\ Len(q.passes[k]) = First
              /\ \A i \in 1..Len(q.passes[k]) : q.passes[k][i].kind = "framelen"
              /\ q.events = << >>
              /\ q.CurNOP = q.nop

\* a failed pass, then a pass whose second length response announces 0 bytes
C26_Witness ==
    /\ q.kind = "readframe" /\ q.ret = 0
    /\ Len(q.passes) = 2
    /\ q.script[2][1] = << BadSync(8), FrameLenReply(0, 0) >>

\* C28: a decoded frame yields exactly numFingers end-of-contact markers, one
\* closing each finger's pass whether or not that finger produced a positional
\* observation, and exactly one sync marker, which is the last event.
C28_Markers ==
    q.kind = "decode" =>
      LET ev         == q.events
          numFingers == q.data[17]
          Marks      == { p \in 1..Len(ev) : ev[p].type = "mt_sync" }
          Syncs      == { p \in 1..Len(ev) : ev[p].type = "sync" }
          MtAbs      == { p \in 1..Len(ev) : ev[p].type = "abs" /\ ev[p].code \notin {"ABS_X", "ABS_Y"} }
      IN  /\ Cardinality(Marks) = numFingers
          /\ Len(q.fingers) = numFingers
          /\ \A k \in 1..numFingers :
               LET fe == q.fingers[k].events
               IN  /\ fe[Len(fe)].type = "mt_sync"
                   /\ \A p \in 1..(Len(fe) - 1) : fe[p].type = "abs"
          /\ \A p \in Marks :
               /\ \A r \in 1..p : ev[r].type \in {"abs", "mt_sync"}
               /\ \A r \in 1..p : ev[r].type = "abs" => ev[r].code \notin {"ABS_X", "ABS_Y"}
          /\ \A p \in MtAbs : \E r \in Marks : r > p
          /\ Syncs = { Len(ev) }

\* two fingers, the first at the floor and without an observation, the second
\* above it: two markers, the first of them the first event of the frame
C28_Witness ==
    /\ q.kind = "decode" /\ Len(q.fs) = 2
    /\ Len(q.fingers[1].events) = 1 /\ Len(q.fingers[2].events) = 9
    /\ q.events[1].type = "mt_sync"

\* C29: behind the markers of the fingers, a frame with numFingers > 0 carries
\* a single-touch report taken from the first record alone: when its minor
\* force is above the floor, X = raw x, Y = SensorHeight - raw y and the contact
\* flag (minor size > 0); otherwise the contact flag 0 alone.  A frame with
\* numFingers = 0 carries the sync marker and nothing else.
C29_LegacyReport ==
    q.kind = "decode" =>
      LET ev     == q.events
          Marks  == { p \in 1..Len(ev) : ev[p].type = "mt_sync" }
          last   == IF Marks = {} THEN 0
                    ELSE CHOOSE p \in Marks : \A r \in Marks : r <= p
          legacy == SubSeq(ev, last + 1, Len(ev) - 1)
      IN  IF q.data[17] = 0
          THEN ev = << [type |-> "sync", code |-> "", value |-> 0] >>
          ELSE LET f == q.fs[1]
               IN  IF f.force_minor > q.min_pressure
                   THEN legacy =
                          << [type |-> "abs", code |-> "ABS_X", value |-> f.x],
                             [type |-> "abs", code |-> "ABS_Y",
                              value |-> q.SensorHeight - f.y],
                             [type |-> "key", code |-> "BTN_TOUCH",
                              value |-> IF f.size_minor > 0 THEN 1 ELSE 0] >>
                   ELSE legacy = << [type |-> "key", code |-> "BTN_TOUCH", value |-> 0] >>

\* the first record pressed by its major force only, the second by its minor
\* force: observations for both, and a single-touch report without contact
C29_Witness ==
    /\ q.kind = "decode" /\ Len(q.fs) = 2
    /\ q.fs[1].force_major > q.min_pressure /\ q.fs[1].force_minor <= q.min_pressure
    /\ q.fs[2].force_minor > q.min_pressure
    /\ Len(q.events) = 20
    /\ q.events[19] = [type |-> "key", code |-> "BTN_TOUCH", value |-> 0]

\* C30: a frame whose type is neither 0x43 nor 0x44, or whose headerLen is
\* below 12, is decoded like any other: its events are those of a frame of type
\* 0x44 whose 24-byte header is followed by the same record bytes, and readFrame
\* returns 1 and flips the poll token.
C30_AnomalousFrame ==
    (q.kind = "anomalous" /\ (q.type \notin {67, 68} \/ q.headerLen < 12)) =>
      LET n       == Len(q.fs)
          records == SubSeq(q.frame, q.headerLen + 1, q.headerLen + (n * 28))
          regular == << 68, 0, 24 >> \o [i \in 1..13 |-> 0] \o << n, 28 >>
                        \o [i \in 1..6 |-> 0] \o records
      IN  /\ q.ret = 1
          /\ q.CurNOP = (IF q.nop = 100 THEN 101 ELSE 100)
          /\ q.events = newPacket(regular, 100, 15936).events
          /\ q.events[Len(q.events)].type = "sync"

\* type 0 and headerLen 11: the first record read begins inside the header,
\* its major force lies over the x and y of the first record sent
C30_Witness ==
    /\ q.kind = "anomalous" /\ q.type = 0 /\ q.headerLen = 11
    /\ Len(q.fs) = 2 /\ q.ret = 1
    /\ \E p \in 1..Len(q.events) :
         q.events[p].code = "ABS_MT_TOUCH_MAJOR" /\ q.events[p].value = 51100

\* C31: every transport exchange transfers at most 1024 bytes, the capacity of
\* the buffers it sends from and receives into, whatever maximum packet size
\* the device negotiates and whatever 12-bit report length it announces.
C31_TransfersWithinCapacity ==
    q.kind = "transfer" =>
      \A i \in 1..Len(q.log) : q.log[i].len <= PacketBufferSize

\* C33: a call of readFrame whose frame-data exchanges all end with a
\* transport error delivers nothing: it does not return 1, flips no poll token
\* and emits no event from the bytes an earlier exchange left in the buffer.
C33_TransportErrorRejected ==
    q.kind = "txerror" =>
      /\ q.second.ret # 1
      /\ q.second.CurNOP = q.first.CurNOP
      /\ q.second.events = << >>

\* C34: newPacket runs exactly once in a readFrame call that returns 1 and
\* not at all in a call that returns 0 or -1: a pass decodes a frame exactly
\* when it leaves the loop towards the flip, so that the decoded frames are
\* the flips made plus the calls standing right before their flip.
C34_DecodedOncePerDelivery ==
    /\ [](/\ \A t \in Threads :
               /\ rf[t].pc = "ret" => (rf[t].emitted <=> rf[t].ret = 1)
               /\ rf[t].pc = "store" => rf[t].emitted
          /\ frames = delivered + Cardinality({ t \in Threads : rf[t].pc = "store" }))
    /\ [][\A t \in Threads :
            (rf[t].pc = "pass" /\ rf'[t] # rf[t]) =>
               IF rf'[t].pc = "store" THEN frames' = frames + 1 ELSE frames' = frames]_vars

\* bring-up's own read and a handler's read have each delivered one frame
C34_Witness ==
    /\ SteadyState
    /\ frames = 2 /\ delivered = 2
    /\ \E h \in Handlers : rf[h].pc = "ret" /\ rf[h].ret = 1 /\ rf[h].emitted

\* C35: decoding leaves the bytes of the frame as they were received, and
\* decoding the buffer once more with the same floor yields the same events.
C35_DecodeLeavesFrame ==
    q.kind = "decode" =>
      /\ q.after = q.data
      /\ newPacket(q.after, q.min_pressure, q.SensorHeight).events = q.events

\* C36: every value the decoder reports for an axis lies within the range
\* registered for that axis during bring-up.
C36_ValuesWithinAxisRanges ==
    q.kind = "decode" =>
      \A i \in 1..Len(q.events) :
        q.events[i].type = "abs" =>
          q.events[i].value \in AxisRange(q.events[i].code, q.SensorWidth, q.SensorHeight)

\* C32: every byte the decoder reads or writes, the header fields and the
\* record of each of the numFingers fingers, lies within the first len bytes
\* of the frame it was handed.
C32_DecoderWithinFrame ==
    q.kind = "extent" => q.extent <= q.len

====
